---------------------------- MODULE Spec2Model ----------------------------
(***************************************************************************)
(* Sales-call analyser: the analysis client (evidence registry, framework  *)
(* analysis, deal review), the streaming orchestrator, the file processor  *)
(* and the request handlers, in the three deployment variants the          *)
(* repository holds:                                                       *)
(*   "plugin"      routes/api/analysis.py with utils/llm_client.py         *)
(*   "mock"        routes/api/analysis.py with utils/llm_client_mock.py    *)
(*   "standalone"  sales-call-analyzer/app.py                              *)
(*                                                                         *)
(* Conventions.  A text is not kept character by character: a transcript   *)
(* is [lead, body, trail], the number of leading whitespace characters,    *)
(* of characters from the first to the last non-whitespace one, and of     *)
(* trailing whitespace characters.  A message is a sequence of string      *)
(* parts (an f-string's pieces); the part StrE stands for str(e), the text *)
(* of the exception that was caught.  A JSON object keeps the order of its *)
(* keys where the code depends on it: a framework is a sequence of         *)
(* <<dimension, value>> pairs.                                             *)
(***************************************************************************)
EXTENDS Integers, Sequences, FiniteSets, TLC

VARIABLES
    variant,    \* which deployment this process is
    op,         \* the operation the last request or call ran
    req,        \* its inputs
    ret,        \* what the operation returned (a Dict; of
                \* read_file_content: None or the text; of
                \* clean_json_response: the cleaned text)
    raised,     \* TRUE when the operation let an exception escape
    calls,      \* model calls issued by the operation
    status,     \* HTTP status of the handler's response (0: no response)
    body,       \* HTTP body of the handler's response
    pc,         \* create_analysis_streamed: where the generator is suspended
    events,     \* create_analysis_streamed: the events yielded so far
    evidence_result, \* create_analysis_streamed: local of the same name
    rows,       \* the rows the request appended to the results dataset
    hpc,        \* a streaming handler: where its generate() is suspended
    frames,     \* a streaming handler: the frames sent to the client so far
    session,    \* app.py: the keys of the client's session (the cookie as
                \* the last response set it)
    waited,     \* the time the handler spent in log_analysis before it
                \* returned its response
    dataset,    \* concurrent logging: the results dataset of the project
    thread      \* concurrent logging: where each request's call of
                \* log_analysis is, and its locals

vars == <<variant, op, req, ret, raised, calls, status, body, pc, events,
          evidence_result, rows, hpc, frames, session, waited, dataset, thread>>

\* The state of the requests that log concurrently, and the rest
cvars == <<dataset, thread>>
hvars == <<variant, op, req, ret, raised, calls, status, body, pc, events,
           evidence_result, rows, hpc, frames, session, waited>>

-----------------------------------------------------------------------------
(* Bounds of the model *)

\* how far around each threshold the lengths and sizes are drawn
Slack == 1
\* longest raw key list of a three-dimension framework in a model response
MaxKeys == 3
\* longest raw key list of the MEDDIC framework in a model response
MaxMeddicKeys == 2
\* most dot-separated segments of an uploaded file's name
MaxSegs == 3
\* most entries of an evidence registry
MaxEvidence == 1
\* longest free text of brackets and commas handed to clean_json_response
MaxText == 4
\* longest time a call of log_analysis takes
MaxLogTime == 2
\* most requests that log at the same time
MaxRequests == 2

-----------------------------------------------------------------------------
(* Program constants *)

MAX_FILE_SIZE == 5242880
MAX_TRANSCRIPT_LEN == 50000
MIN_TRANSCRIPT_LEN == 50
MIN_CONTENT_LEN == 10

ALLOWED_EXTENSIONS == {"txt", "docx"}

ALLOWED_MIME_TYPES ==
    {"text/plain",
     "application/vnd.openxmlformats-officedocument.wordprocessingml.document",
     "application/octet-stream"}

Variants == {"plugin", "mock", "standalone"}

\* str(e) of a caught exception, as a message part
StrE == "<str(e)>"

-----------------------------------------------------------------------------
(* Texts *)

TLen(t) == t.lead + t.body + t.trail       \* len(text)
StripLen(t) == t.body                      \* len(text.strip())

Near(n) == {k \in (n - Slack)..(n + Slack) : k >= 0}

Transcripts ==
    [lead : 0..Slack,
     body : Near(0) \cup Near(MIN_CONTENT_LEN) \cup Near(MIN_TRANSCRIPT_LEN)
                \cup Near(MAX_TRANSCRIPT_LEN),
     trail : (0..Slack) \cup {MAX_TRANSCRIPT_LEN}]

-----------------------------------------------------------------------------
(* File processor: validate_file *)

\* A file name is its dot-separated segments: <<"a", "txt">> is "a.txt",
\* <<"">> the empty name, <<"", "txt">> is ".txt", <<"a", "">> is "a.".
FileNames ==
    LET Segments == {"", "a", "txt", "TXT", "Docx", "docx", "pdf"}
    IN  UNION {[1..n -> Segments] : n \in 1..MaxSegs}

\* str.lower() on the segments of the model
Lower(s) ==
    CASE s = "TXT" -> "txt"
      [] s = "Docx" -> "docx"
      [] OTHER -> s

NameIsEmpty(name) == name = <<"">>                    \* not file.filename
HasDot(name) == Len(name) >= 2                         \* '.' in file.filename
Ext(name) == Lower(name[Len(name)])     \* filename.rsplit('.', 1)[1].lower()

FileSizes == Near(0) \cup Near(MAX_FILE_SIZE)

\* A plausible slip: the size cap excluded (>= instead of >).
validate_file_strict_cap(name, size) ==
    IF NameIsEmpty(name) THEN
        [is_valid |-> FALSE, message |-> <<"No file selected">>]
    ELSE IF ~HasDot(name) THEN
        [is_valid |-> FALSE, message |-> <<"File must have an extension">>]
    ELSE IF Ext(name) \notin ALLOWED_EXTENSIONS THEN
        [is_valid |-> FALSE,
         message |-> <<"File type .", Ext(name),
                       " not allowed. Only .txt and .docx files are supported">>]
    ELSE IF size >= MAX_FILE_SIZE THEN
        [is_valid |-> FALSE,
         message |-> <<"File too large. Maximum size is ", "5", "MB">>]
    ELSE IF size = 0 THEN
        [is_valid |-> FALSE, message |-> <<"File is empty">>]
    ELSE [is_valid |-> TRUE, message |-> <<"File is valid">>]

\* FileProcessor.validate_file and app.py's validate_file (the same code)
validate_file(name, size) ==
    IF NameIsEmpty(name) THEN
        [is_valid |-> FALSE, message |-> <<"No file selected">>]
    ELSE IF ~HasDot(name) THEN
        [is_valid |-> FALSE, message |-> <<"File must have an extension">>]
    ELSE IF Ext(name) \notin ALLOWED_EXTENSIONS THEN
        [is_valid |-> FALSE,
         message |-> <<"File type .", Ext(name),
                       " not allowed. Only .txt and .docx files are supported">>]
    ELSE IF size > MAX_FILE_SIZE THEN
        [is_valid |-> FALSE,
         message |-> <<"File too large. Maximum size is ", "5", "MB">>]
    ELSE IF size = 0 THEN
        [is_valid |-> FALSE, message |-> <<"File is empty">>]
    ELSE [is_valid |-> TRUE, message |-> <<"File is valid">>]

-----------------------------------------------------------------------------
(* JSON values the client handles *)

AllFrameworks == {"sales_whys", "business_context", "three_whys", "meddic"}

SALES_WHYS == <<"why_anything", "why_now", "why_us">>
BUSINESS_CONTEXT ==
    <<"corporate_objectives", "domain_initiatives", "domain_challenges">>
MEDDIC == <<"metrics", "economic_buyer", "decision_process",
            "decision_criteria", "implicated_pain", "champion">>

\* The fixed order of a framework's dimensions (the prompts' JSON templates)
Canonical(f) ==
    CASE f = "sales_whys" -> SALES_WHYS
      [] f = "business_context" -> BUSINESS_CONTEXT
      [] f = "three_whys" -> BUSINESS_CONTEXT
      [] f = "meddic" -> MEDDIC

\* The frameworks a variant's create_analysis asks the model for
FrameworksOf(v) ==
    IF v = "plugin" THEN {"sales_whys", "business_context", "meddic"}
    ELSE {"three_whys", "meddic"}

Range(s) == {s[i] : i \in DOMAIN s}

\* A framework as a value of the analysis object: absent, present but no
\* JSON object, or an object with its <<dimension, value>> pairs in key order.
\* A dimension's value is "entry" ({summary, evidence_ids}), "unsupported" (a
\* summary with "evidence_ids": []) or "empty" ({}).
AbsentFw == [present |-> FALSE, isObj |-> FALSE, kv |-> <<>>]
NonObjFw == [present |-> TRUE, isObj |-> FALSE, kv |-> <<>>]
ObjFw(kv) == [present |-> TRUE, isObj |-> TRUE, kv |-> kv]

Keys(kv) == [i \in DOMAIN kv |-> kv[i][1]]
HasKey(kv, k) == \E i \in DOMAIN kv : kv[i][1] = k
\* dict.get(k, default)
Get(kv, k, default) ==
    IF HasKey(kv, k) THEN kv[CHOOSE i \in DOMAIN kv : kv[i][1] = k][2]
    ELSE default

NoFw == [f \in AllFrameworks |-> AbsentFw]
NoReview == [present |-> FALSE, stage_readiness |-> "", critical_gaps |-> 0]

\* What json.loads returns, and what the client operations return: a dict
\* (t = "obj") with an optional "error" message, an optional
\* "evidence_registry" of n entries, optional frameworks, an optional
\* "deal_review" and an optional "is_sample" flag; or a JSON list or number
\* (t = "list", "int").
EmptyDict ==
    [t |-> "obj", hasError |-> FALSE, error |-> <<>>, hasReg |-> FALSE,
     n |-> 0, fw |-> NoFw, review |-> NoReview, is_sample |-> "absent"]
ListValue == [EmptyDict EXCEPT !.t = "list"]
IntValue == [EmptyDict EXCEPT !.t = "int"]

\* {"evidence_registry": {}, "error": msg}
EvidenceError(msg) ==
    [EmptyDict EXCEPT !.hasError = TRUE, !.error = msg, !.hasReg = TRUE]
\* {"evidence_registry": {E001: ..., ...}} with n entries
Registry(n) == [EmptyDict EXCEPT !.hasReg = TRUE, !.n = n]
\* {"sales_whys": {}, "business_context": {}, "meddic": {}, "error": msg}
\* (plugin), {"three_whys": {}, "meddic": {}, "error": msg} (standalone)
AnalysisError(v, msg) ==
    [EmptyDict EXCEPT !.hasError = TRUE, !.error = msg,
        !.fw = [f \in AllFrameworks |->
                    IF f \in FrameworksOf(v) THEN ObjFw(<<>>) ELSE AbsentFw]]
\* {"deal_review": {}, "error": msg}
ReviewError(msg) ==
    [EmptyDict EXCEPT !.hasError = TRUE, !.error = msg,
        !.review = [NoReview EXCEPT !.present = TRUE]]

-----------------------------------------------------------------------------
(* JSON cleaning: clean_json_response *)

\* A text is here a sequence of tokens: the fence (three backticks, written
\* "<fence>"), the word "json", a whitespace character " ", the characters
\* { } [ ] , : and ", a letter "a" and a digit "1".
FENCE == "<fence>"

\* The token at i, "" past the end of the text
At(t, i) == IF i \in 1..Len(t) THEN t[i] ELSE ""

\* \s* from i on: the index of the first token at or after i that is no
\* whitespace (Len(t) + 1: there is none)
SkipWs(t, i) ==
    IF \E k \in i..Len(t) : t[k] # " "
    THEN CHOOSE k \in i..Len(t) : t[k] # " " /\ \A m \in i..(k - 1) : t[m] = " "
    ELSE Len(t) + 1

Min(S) == CHOOSE x \in S : \A y \in S : x <= y
Max(S) == CHOOSE x \in S : \A y \in S : y <= x

\* re.search(r'<fence>(?:json)?\s*(\{.*\})\s*<fence>', text, re.DOTALL):
\* group 1 of the match, <<>> when there is none.  The match starts at the
\* leftmost fence it can start at, and from there the group is the longest
\* there is (.* is greedy): it ends at the last } that whitespace and a
\* fence follow.
SearchFenced(t) ==
    LET GroupStart(i) == SkipWs(t, IF At(t, i + 1) = "json" THEN i + 2 ELSE i + 1)
        GroupEnds(i) ==
            {e \in (GroupStart(i) + 1)..Len(t) :
                t[e] = "}" /\ At(t, SkipWs(t, e + 1)) = FENCE}
        MatchAt(i) ==
            At(t, i) = FENCE /\ At(t, GroupStart(i)) = "{" /\ GroupEnds(i) # {}
    IN  IF \E i \in DOMAIN t : MatchAt(i) THEN
            LET i == Min({k \in DOMAIN t : MatchAt(k)})
            IN  SubSeq(t, GroupStart(i), Max(GroupEnds(i)))
        ELSE <<>>

\* re.search(r'\{.*\}', text, re.DOTALL): group 0 of the match, <<>> when
\* there is none; from the first { that a } follows to the last }
SearchObject(t) ==
    LET Opens == {o \in DOMAIN t :
                    t[o] = "{" /\ \E e \in DOMAIN t : o < e /\ t[e] = "}"}
    IN  IF Opens # {}
        THEN SubSeq(t, Min(Opens), Max({e \in DOMAIN t : t[e] = "}"}))
        ELSE <<>>

\* The pattern ,(\s*[}\]]) matches at i
CommaBeforeClose(t, i) == t[i] = "," /\ At(t, SkipWs(t, i + 1)) \in {"}", "]"}

\* The tokens of t at the indices in keep, in their order
Pick(t, keep) ==
    LET f[n \in 0..Len(t)] ==
            IF n = 0 THEN <<>>
            ELSE IF n \in keep THEN Append(f[n - 1], t[n]) ELSE f[n - 1]
    IN  f[Len(t)]

\* A plausible slip: no trailing comma is removed.
SubTrailingCommas_none(t) == t

\* re.sub(r',(\s*[}\]])', r'\1', text): every match loses its comma.  (The
\* matches cannot overlap: between the comma and the bracket of one there is
\* whitespace only.)
SubTrailingCommas(t) == Pick(t, {i \in DOMAIN t : ~CommaBeforeClose(t, i)})

\* str.strip()
Strip(t) ==
    IF SkipWs(t, 1) > Len(t) THEN <<>>
    ELSE SubSeq(t, SkipWs(t, 1), Max({k \in DOMAIN t : t[k] # " "}))

\* json_utils.py, clean_json_response (app.py holds the same code)
clean_json_response(text) ==
    LET extracted ==
            IF SearchFenced(text) # <<>> THEN SearchFenced(text)
            ELSE IF SearchObject(text) # <<>> THEN SearchObject(text)
            ELSE text
    IN  Strip(SubTrailingCommas(extracted))

-----------------------------------------------------------------------------
(* The model service *)

\* One answer of the model service to one call: the call raises exc, or it
\* returns text that clean_json_response and json.loads turn into value, or
\* text that json.loads rejects after cleaning (valid = FALSE).
\* The exceptions of a call are "APIError" and "Exception".
Raises(e) == [raises |-> TRUE, exc |-> e, valid |-> FALSE, value |-> EmptyDict]
Garbage == [raises |-> FALSE, exc |-> "none", valid |-> FALSE, value |-> EmptyDict]
Answer(d) == [raises |-> FALSE, exc |-> "none", valid |-> TRUE, value |-> d]

\* The outcome of a try block: the exception it ended with ("none": it
\* returned ret), and the model calls it issued.
Out(exc, r, c) == [exc |-> exc, ret |-> r, calls |-> c]
\* What an operation hands its caller: a value, or an exception (raised).
Result(r, c) == [ret |-> r, raised |-> FALSE, calls |-> c]
Escapes(c) == [ret |-> EmptyDict, raised |-> TRUE, calls |-> c]

-----------------------------------------------------------------------------
(* create_evidence_registry *)

\* llm_client.py, the try block of create_evidence_registry
\* A plausible slip: the bounds are exclusive, and the short test comes
\* first.
SalesAnalysisLLM_evidence_try_exclusive(transcript, resp) ==
    IF StripLen(transcript) <= MIN_TRANSCRIPT_LEN THEN
        Out("none", EvidenceError(<<"Transcript too short">>), 0)
    ELSE IF TLen(transcript) >= MAX_TRANSCRIPT_LEN THEN
        Out("none", EvidenceError(<<"Transcript too long">>), 0)
    ELSE IF resp.raises THEN
        Out(resp.exc, EmptyDict, 1)
    ELSE IF ~resp.valid THEN
        Out("none", EvidenceError(<<"Analysis failed - please try again">>), 1)
    ELSE Out("none", resp.value, 1)

SalesAnalysisLLM_evidence_try(transcript, resp) ==
    IF TLen(transcript) > MAX_TRANSCRIPT_LEN THEN
        Out("none", EvidenceError(<<"Transcript too long">>), 0)
    ELSE IF StripLen(transcript) < MIN_TRANSCRIPT_LEN THEN
        Out("none", EvidenceError(<<"Transcript too short">>), 0)
    ELSE IF resp.raises THEN               \* _create_completion re-raises
        Out(resp.exc, EmptyDict, 1)
    ELSE IF ~resp.valid THEN               \* except json.JSONDecodeError
        Out("none", EvidenceError(<<"Analysis failed - please try again">>), 1)
    ELSE Out("none", resp.value, 1)

\* llm_client.py, SalesAnalysisLLM.create_evidence_registry
SalesAnalysisLLM_create_evidence_registry(transcript, resp) ==
    LET o == SalesAnalysisLLM_evidence_try(transcript, resp) IN
    IF o.exc # "none" THEN                 \* except Exception as e
        Result(EvidenceError(<<"Analysis failed: ", StrE>>), o.calls)
    ELSE Result(o.ret, o.calls)

\* llm_client_mock.py, SalesAnalysisLLM.create_evidence_registry: the fixed
\* registry E001..E003, whatever the transcript; no model call
Mock_create_evidence_registry(transcript, resp) == Result(Registry(3), 0)

\* app.py, the try block of create_evidence_registry
app_evidence_try(transcript, resp) ==
    IF TLen(transcript) > MAX_TRANSCRIPT_LEN THEN
        Out("none", EvidenceError(<<"Transcript too long">>), 0)
    ELSE IF StripLen(transcript) < MIN_TRANSCRIPT_LEN THEN
        Out("none", EvidenceError(<<"Transcript too short">>), 0)
    ELSE IF resp.raises THEN               \* client.messages.create raises
        Out(resp.exc, EmptyDict, 1)
    ELSE IF ~resp.valid THEN               \* except json.JSONDecodeError
        Out("none", EvidenceError(<<"Analysis failed - please try again">>), 1)
    ELSE Out("none", resp.value, 1)

\* app.py, create_evidence_registry
app_create_evidence_registry(transcript, resp) ==
    LET o == app_evidence_try(transcript, resp) IN
    IF o.exc = "APIError" THEN             \* except anthropic.APIError
        Result(EvidenceError(<<"AI analysis service temporarily unavailable">>),
               o.calls)
    ELSE IF o.exc # "none" THEN            \* except Exception
        Result(EvidenceError(<<"Analysis failed - please try again">>), o.calls)
    ELSE Result(o.ret, o.calls)

create_evidence_registry(v, transcript, resp) ==
    CASE v = "plugin" -> SalesAnalysisLLM_create_evidence_registry(transcript, resp)
      [] v = "mock" -> Mock_create_evidence_registry(transcript, resp)
      [] v = "standalone" -> app_create_evidence_registry(transcript, resp)

-----------------------------------------------------------------------------
(* create_analysis *)

\* A plausible slip: only the dimensions the raw framework holds are kept.
Ordered_present_only(fwval, dims) ==
    ObjFw(SelectSeq([i \in DOMAIN dims |-> <<dims[i], Get(fwval.kv, dims[i], "empty")>>],
                    LAMBDA p : HasKey(fwval.kv, p[1])))

\* ordered = OrderedDict(); ordered[d] = raw.get(d, {}) for d in dims, in turn
Ordered(fwval, dims) ==
    ObjFw([i \in DOMAIN dims |-> <<dims[i], Get(fwval.kv, dims[i], "empty")>>])

\* The frameworks create_analysis rebuilds in order (each under "if f in
\* analysis_data"); it hands the others on as json.loads left them.
OrderedFrameworks(v) ==
    IF v = "plugin" THEN {"sales_whys", "business_context"} ELSE {"three_whys"}

\* The steps after json.loads, shared in shape by llm_client.py and app.py:
\* "f in analysis_data" raises TypeError on a number and is False on a list;
\* analysis_data[f].get raises AttributeError when the value is no dict.
Reordered(v, d) ==
    IF d.t = "int" THEN Out("TypeError", EmptyDict, 1)
    ELSE IF d.t = "list" THEN Out("none", d, 1)
    ELSE IF \E f \in OrderedFrameworks(v) : d.fw[f].present /\ ~d.fw[f].isObj THEN
        Out("AttributeError", EmptyDict, 1)
    ELSE Out("none",
             [d EXCEPT !.fw = [f \in AllFrameworks |->
                 IF f \in OrderedFrameworks(v) /\ d.fw[f].present
                 THEN Ordered(d.fw[f], Canonical(f)) ELSE d.fw[f]]],
             1)

\* llm_client.py, the try block of create_analysis
SalesAnalysisLLM_analysis_try(evidence_registry, resp) ==
    IF resp.raises THEN Out(resp.exc, EmptyDict, 1)
    ELSE IF ~resp.valid THEN               \* except json.JSONDecodeError
        Out("none",
            AnalysisError("plugin", <<"Analysis failed - please try again">>), 1)
    ELSE Reordered("plugin", resp.value)

\* llm_client.py, SalesAnalysisLLM.create_analysis
SalesAnalysisLLM_create_analysis(evidence_registry, resp) ==
    LET o == SalesAnalysisLLM_analysis_try(evidence_registry, resp) IN
    IF o.exc # "none" THEN                 \* except Exception as e
        Result(AnalysisError("plugin", <<"Analysis failed: ", StrE>>), o.calls)
    ELSE Result(o.ret, o.calls)

\* The mock's fixed analysis: three_whys and meddic, every dimension there
\* with a summary; decision_process, decision_criteria and champion name no
\* evidence
MockAnalysis ==
    [EmptyDict EXCEPT !.fw = [f \in AllFrameworks |->
        IF f \in {"three_whys", "meddic"}
        THEN ObjFw([i \in DOMAIN Canonical(f) |->
                <<Canonical(f)[i],
                  IF Canonical(f)[i] \in {"decision_process", "decision_criteria",
                                          "champion"}
                  THEN "unsupported" ELSE "entry">>])
        ELSE AbsentFw]]

\* llm_client_mock.py, SalesAnalysisLLM.create_analysis
Mock_create_analysis(evidence_registry, resp) == Result(MockAnalysis, 0)

\* app.py, the try block of create_analysis
app_analysis_try(evidence_registry, resp) ==
    IF resp.raises THEN Out(resp.exc, EmptyDict, 1)
    ELSE IF ~resp.valid THEN               \* except json.JSONDecodeError
        Out("none",
            AnalysisError("standalone", <<"Analysis failed - please try again">>), 1)
    ELSE Reordered("standalone", resp.value)

\* app.py, create_analysis
app_create_analysis(evidence_registry, resp) ==
    LET o == app_analysis_try(evidence_registry, resp) IN
    IF o.exc = "APIError" THEN             \* except anthropic.APIError
        Result(AnalysisError("standalone",
                   <<"AI analysis service temporarily unavailable">>), o.calls)
    ELSE IF o.exc # "none" THEN            \* except Exception
        Result(AnalysisError("standalone",
                   <<"Analysis failed - please try again">>), o.calls)
    ELSE Result(o.ret, o.calls)

create_analysis(v, evidence_registry, resp) ==
    CASE v = "plugin" -> SalesAnalysisLLM_create_analysis(evidence_registry, resp)
      [] v = "mock" -> Mock_create_analysis(evidence_registry, resp)
      [] v = "standalone" -> app_create_analysis(evidence_registry, resp)

\* A plausible slip: the stage empties the registry it was handed.
create_analysis_leaves_cleared(v, evidence_registry) ==
    [evidence_registry EXCEPT !.n = 0]

\* The caller's evidence registry as create_analysis leaves it.  The one use
\* of the argument is json.dumps(evidence_registry, indent=2) in the prompt
\* (the mock does not use it); the assignments of the function are to
\* analysis_data, the dict json.loads made.
create_analysis_leaves(v, evidence_registry) == evidence_registry

-----------------------------------------------------------------------------
(* create_deal_review *)

\* {"deal_review": {stage_readiness, confidence_note, critical_gaps: [g items],
\*                  next_call_objectives}}
Review(stage, g) ==
    [EmptyDict EXCEPT !.review =
        [present |-> TRUE, stage_readiness |-> stage, critical_gaps |-> g]]

\* llm_client.py, the try block of create_deal_review
SalesAnalysisLLM_review_try(evidence_registry, analysis_data, resp) ==
    IF resp.raises THEN Out(resp.exc, EmptyDict, 1)
    ELSE IF ~resp.valid THEN               \* except json.JSONDecodeError
        Out("none", ReviewError(<<"Deal review failed - please try again">>), 1)
    ELSE Out("none", resp.value, 1)

\* A plausible slip: the except clause logs and re-raises, as
\* _create_completion does.
SalesAnalysisLLM_create_deal_review_reraise(evidence_registry, analysis_data, resp) ==
    LET o == SalesAnalysisLLM_review_try(evidence_registry, analysis_data, resp) IN
    IF o.exc # "none" THEN Escapes(o.calls)
    ELSE Result(o.ret, o.calls)

\* llm_client.py, SalesAnalysisLLM.create_deal_review
SalesAnalysisLLM_create_deal_review(evidence_registry, analysis_data, resp) ==
    LET o == SalesAnalysisLLM_review_try(evidence_registry, analysis_data, resp) IN
    IF o.exc # "none" THEN                 \* except Exception as e
        Result(ReviewError(<<"Deal review failed: ", StrE>>), o.calls)
    ELSE Result(o.ret, o.calls)

\* The rubric of the deal-review prompt, "If missing >2 critical MEDDIC
\* elements, it's More Discovery Needed": the MEDDIC elements the analysis
\* has no evidence for (absent, empty, or a summary without evidence ids)
MissingMeddic(analysis_data) ==
    Cardinality({i \in DOMAIN MEDDIC :
        Get(analysis_data.fw["meddic"].kv, MEDDIC[i], "empty") # "entry"})

\* A plausible slip: the fixed review says the deal is ready.
Mock_create_deal_review_ready(evidence_registry, analysis_data, resp) ==
    Result(Review("Ready for Demo", 3), 0)

\* llm_client_mock.py, SalesAnalysisLLM.create_deal_review
Mock_create_deal_review(evidence_registry, analysis_data, resp) ==
    Result(Review("More Discovery Needed", 3), 0)

\* app.py, the try block of create_deal_review
app_review_try(evidence_registry, analysis_data, resp) ==
    IF resp.raises THEN Out(resp.exc, EmptyDict, 1)
    ELSE IF ~resp.valid THEN               \* except json.JSONDecodeError
        Out("none", ReviewError(<<"Deal review failed - please try again">>), 1)
    ELSE Out("none", resp.value, 1)

\* app.py, create_deal_review
app_create_deal_review(evidence_registry, analysis_data, resp) ==
    LET o == app_review_try(evidence_registry, analysis_data, resp) IN
    IF o.exc = "APIError" THEN             \* except anthropic.APIError
        Result(ReviewError(<<"Deal review service temporarily unavailable">>),
               o.calls)
    ELSE IF o.exc # "none" THEN            \* except Exception
        Result(ReviewError(<<"Deal review failed - please try again">>), o.calls)
    ELSE Result(o.ret, o.calls)

create_deal_review(v, evidence_registry, analysis_data, resp) ==
    CASE v = "plugin" ->
            SalesAnalysisLLM_create_deal_review(evidence_registry, analysis_data, resp)
      [] v = "mock" -> Mock_create_deal_review(evidence_registry, analysis_data, resp)
      [] v = "standalone" ->
            app_create_deal_review(evidence_registry, analysis_data, resp)

\* The caller's two arguments as create_deal_review leaves them: both are
\* read by json.dumps for the prompt (the mock reads neither) and nothing is
\* assigned in either.
create_deal_review_leaves(v, evidence_registry, analysis_data) ==
    [evidence_registry |-> evidence_registry, analysis_data |-> analysis_data]

-----------------------------------------------------------------------------
(* create_analysis_streamed: the generator, one step per pull *)

\* The events it yields.  status is "none" on an error event, which has no
\* "status" key; hasData tells whether the event has a "data" key.
Started(stage) ==
    [stage |-> stage, status |-> "started", hasData |-> FALSE, data |-> EmptyDict,
     complete |-> FALSE, error |-> <<>>]
\* A plausible slip: the last event is not marked final.
Complete_never_final(stage, data, final) ==
    [stage |-> stage, status |-> "complete", hasData |-> TRUE, data |-> data,
     complete |-> FALSE, error |-> <<>>]
Complete(stage, data, final) ==
    [stage |-> stage, status |-> "complete", hasData |-> TRUE, data |-> data,
     complete |-> final, error |-> <<>>]
ErrorEvent(msg) ==
    [stage |-> "error", status |-> "none", hasData |-> FALSE, data |-> EmptyDict,
     complete |-> TRUE, error |-> msg]

\* One resumption of the generator: where it suspends next (pc), the event
\* it yields there (none when it returns), its local evidence_result, the
\* model calls it issued and the stage result it obtained (results).
Step(to, yield, ev, c, results) ==
    [pc |-> to, yield |-> yield, evidence_result |-> ev, calls |-> c,
     results |-> results]

\* Where the generator can be: "created" (not started), suspended at the
\* yield of evidence-started ("ev_started"), of evidence-complete
\* ("ev_complete"), of analysis-started ("an_started"), at a yield that
\* nothing but the return follows ("last"), or finished ("closed").
\* "error" in result: TypeError on a number, False on a list.

\* A plausible slip: the stage result is not tested for "error" (as in the
\* mock client).
error_in_untested(d) == FALSE

\* "error" in result, for a result that is a dict or a list
error_in(d) == d.t = "obj" /\ d.hasError

\* llm_client.py, SalesAnalysisLLM.create_analysis_streamed
SalesAnalysisLLM_create_analysis_streamed(at, transcript, ev, resp) ==
    CASE at = "created" ->
            IF TLen(transcript) > MAX_TRANSCRIPT_LEN THEN
                Step("last", <<ErrorEvent(<<"Transcript too long">>)>>, ev, 0, <<>>)
            ELSE IF StripLen(transcript) < MIN_TRANSCRIPT_LEN THEN
                Step("last", <<ErrorEvent(<<"Transcript too short">>)>>, ev, 0, <<>>)
            ELSE Step("ev_started", <<Started("evidence")>>, ev, 0, <<>>)
      [] at = "ev_started" ->
            LET r == SalesAnalysisLLM_create_evidence_registry(transcript, resp) IN
            IF r.raised \/ r.ret.t = "int" THEN        \* except Exception as e
                Step("last", <<ErrorEvent(<<StrE>>)>>, ev, r.calls, <<r>>)
            ELSE IF error_in(r.ret) THEN
                Step("last", <<ErrorEvent(r.ret.error)>>, ev, r.calls, <<r>>)
            ELSE Step("ev_complete", <<Complete("evidence", r.ret, FALSE)>>,
                      r.ret, r.calls, <<r>>)
      [] at = "ev_complete" ->
            Step("an_started", <<Started("analysis")>>, ev, 0, <<>>)
      [] at = "an_started" ->
            LET r == SalesAnalysisLLM_create_analysis(ev, resp) IN
            IF r.raised \/ r.ret.t = "int" THEN        \* except Exception as e
                Step("last", <<ErrorEvent(<<StrE>>)>>, ev, r.calls, <<r>>)
            ELSE IF error_in(r.ret) THEN
                Step("last", <<ErrorEvent(r.ret.error)>>, ev, r.calls, <<r>>)
            ELSE Step("last", <<Complete("analysis", r.ret, TRUE)>>,
                      ev, r.calls, <<r>>)
      [] at = "last" -> Step("closed", <<>>, ev, 0, <<>>)

\* llm_client_mock.py, SalesAnalysisLLM.create_analysis_streamed: the stage
\* results are not tested for "error"
Mock_create_analysis_streamed(at, transcript, ev, resp) ==
    CASE at = "created" ->
            IF TLen(transcript) > MAX_TRANSCRIPT_LEN THEN
                Step("last", <<ErrorEvent(<<"Transcript too long">>)>>, ev, 0, <<>>)
            ELSE IF StripLen(transcript) < MIN_TRANSCRIPT_LEN THEN
                Step("last", <<ErrorEvent(<<"Transcript too short">>)>>, ev, 0, <<>>)
            ELSE Step("ev_started", <<Started("evidence")>>, ev, 0, <<>>)
      [] at = "ev_started" ->
            LET r == Mock_create_evidence_registry(transcript, resp) IN
            IF r.raised THEN                           \* except Exception as e
                Step("last", <<ErrorEvent(<<StrE>>)>>, ev, r.calls, <<r>>)
            ELSE Step("ev_complete", <<Complete("evidence", r.ret, FALSE)>>,
                      r.ret, r.calls, <<r>>)
      [] at = "ev_complete" ->
            Step("an_started", <<Started("analysis")>>, ev, 0, <<>>)
      [] at = "an_started" ->
            LET r == Mock_create_analysis(ev, resp) IN
            IF r.raised THEN                           \* except Exception as e
                Step("last", <<ErrorEvent(<<StrE>>)>>, ev, r.calls, <<r>>)
            ELSE Step("last", <<Complete("analysis", r.ret, TRUE)>>,
                      ev, r.calls, <<r>>)
      [] at = "last" -> Step("closed", <<>>, ev, 0, <<>>)

\* A plausible slip: the analysis call is issued together with the yield of
\* analysis-started, before the consumer has pulled that event.
create_analysis_streamed_eager(v, at, transcript, ev, resp) ==
    IF at = "ev_complete" /\ v # "mock" THEN
        LET r == SalesAnalysisLLM_create_analysis(ev, resp) IN
        Step("an_started", <<Started("analysis")>>, ev, r.calls, <<r>>)
    ELSE IF v = "mock" THEN Mock_create_analysis_streamed(at, transcript, ev, resp)
    ELSE SalesAnalysisLLM_create_analysis_streamed(at, transcript, ev, resp)

\* A plausible slip: the generator does not check the length itself and
\* leaves it to create_evidence_registry.
create_analysis_streamed_unchecked(v, at, transcript, ev, resp) ==
    IF at = "created" THEN Step("ev_started", <<Started("evidence")>>, ev, 0, <<>>)
    ELSE IF v = "mock" THEN Mock_create_analysis_streamed(at, transcript, ev, resp)
    ELSE SalesAnalysisLLM_create_analysis_streamed(at, transcript, ev, resp)

create_analysis_streamed(v, at, transcript, ev, resp) ==
    IF v = "mock" THEN Mock_create_analysis_streamed(at, transcript, ev, resp)
    ELSE SalesAnalysisLLM_create_analysis_streamed(at, transcript, ev, resp)

-----------------------------------------------------------------------------
(* File processor: read_file_content *)

DOCX_MIME == "application/vnd.openxmlformats-officedocument.wordprocessingml.document"

\* None, or the text read
NoContent == [none |-> TRUE, text |-> [lead |-> 0, body |-> 0, trail |-> 0]]
Content(t) == [none |-> FALSE, text |-> t]

\* An uploaded file: its name and size, its declared content type, whether
\* its bytes decode as UTF-8 (to text), whether python-docx parses it (its
\* paragraphs joined are text).

\* file_processor.py, FileProcessor.read_file_content; every exception is
\* caught and answered None
FileProcessor_read_file_content(file, docx_available) ==
    IF file.ctype \notin ALLOWED_MIME_TYPES THEN NoContent
    ELSE IF file.ctype = "text/plain" THEN
        IF ~file.decodable THEN NoContent          \* except UnicodeDecodeError
        ELSE IF StripLen(file.text) < MIN_CONTENT_LEN THEN NoContent
        ELSE Content(file.text)
    ELSE IF docx_available THEN                    \* wordprocessingml, octet-stream
        IF ~file.parses THEN NoContent             \* except Exception
        ELSE IF StripLen(file.text) < MIN_CONTENT_LEN THEN NoContent
        ELSE Content(file.text)
    ELSE NoContent

\* len("Word document support needs implementation")
PLACEHOLDER_LEN == 42

\* app.py, read_file_content: a document is answered by a fixed placeholder
app_read_file_content(file, docx_available) ==
    IF file.ctype \notin ALLOWED_MIME_TYPES THEN NoContent
    ELSE IF file.ctype = "text/plain" THEN
        IF ~file.decodable THEN NoContent          \* except UnicodeDecodeError
        ELSE IF StripLen(file.text) < MIN_CONTENT_LEN THEN NoContent
        ELSE Content(file.text)
    ELSE IF docx_available THEN
        Content([lead |-> 0, body |-> PLACEHOLDER_LEN, trail |-> 0])
    ELSE NoContent

read_file_content(v, file, docx_available) ==
    IF v = "standalone" THEN app_read_file_content(file, docx_available)
    ELSE FileProcessor_read_file_content(file, docx_available)

-----------------------------------------------------------------------------
(* Dataset logger *)

\* dict.get(f, {}) on the analysis: the framework, or an empty dict
FwOrEmpty(d, f) == IF d.fw[f].present THEN d.fw[f] ELSE ObjFw(<<>>)

\* sum(1 for field in fw.values() if its summary is there and is not
\* "No evidence found"): an "entry" has such a summary, an "empty" has none
Completeness(fwval) ==
    Cardinality({i \in DOMAIN fwval.kv : fwval.kv[i][2] \in {"entry", "unsupported"}})

\* dataset_logger.py, DatasetLogger.log_analysis: the rows it appends.  It
\* is handed the registry itself (evidence_data.get("evidence_registry", {}),
\* the dict of E001.. entries) and looks up "evidence_registry" in it again:
\* no evidence id is "evidence_registry", so the count is that of {}.
\* log_ok: logging is enabled, the dataset exists and the write succeeds.
log_analysis(evidence_data, analysis_data, is_sample, log_ok) ==
    LET sw == FwOrEmpty(analysis_data, "sales_whys")
        bc == FwOrEmpty(analysis_data, "business_context")
        md == FwOrEmpty(analysis_data, "meddic")
    IN  IF ~log_ok THEN <<>>
        ELSE IF ~(sw.isObj /\ bc.isObj /\ md.isObj) THEN <<>>  \* except Exception
        ELSE <<[num_evidence_items |-> 0,
                sales_whys_completeness |-> Completeness(sw),
                business_context_completeness |-> Completeness(bc),
                meddic_completeness |-> Completeness(md),
                is_sample |-> is_sample]>>

-----------------------------------------------------------------------------
(* Request handlers *)

\* jsonify({"error": msg})
ErrorBody(msg) == [EmptyDict EXCEPT !.hasError = TRUE, !.error = msg]

\* A plausible slip: {**analysis_data, **evidence_data, ...}, the evidence
\* wins on a key both have.
Merge_evidence_wins(e, a, flag) ==
    [t |-> "obj",
     hasError |-> e.hasError \/ a.hasError,
     error |-> IF e.hasError THEN e.error ELSE a.error,
     hasReg |-> e.hasReg \/ a.hasReg,
     n |-> IF e.hasReg THEN e.n ELSE a.n,
     fw |-> [f \in AllFrameworks |-> IF e.fw[f].present THEN e.fw[f] ELSE a.fw[f]],
     review |-> IF e.review.present THEN e.review ELSE a.review,
     is_sample |-> flag]

\* {**evidence_data, **analysis_data, "is_sample": flag}: on a key both
\* have, the analysis wins
Merge(e, a, flag) ==
    [t |-> "obj",
     hasError |-> e.hasError \/ a.hasError,
     error |-> IF a.hasError THEN a.error ELSE e.error,
     hasReg |-> e.hasReg \/ a.hasReg,
     n |-> IF a.hasReg THEN a.n ELSE e.n,
     fw |-> [f \in AllFrameworks |-> IF a.fw[f].present THEN a.fw[f] ELSE e.fw[f]],
     review |-> IF a.review.present THEN a.review ELSE e.review,
     is_sample |-> flag]

\* A handler's answer: status and body, the model calls it issued and the
\* dataset rows it appended; or the exception its code ended with (exc).
\* logged: log_analysis was called, and had returned, before the return
\* statement that made the answer.
Http(st, b, c, rws) ==
    [exc |-> "none", status |-> st, body |-> b, calls |-> c, rows |-> rws,
     logged |-> FALSE]
Fault(e, c) ==
    [exc |-> e, status |-> 0, body |-> EmptyDict, calls |-> c, rows |-> <<>>,
     logged |-> FALSE]

\* analysis.py, the two stages, the logging and the merge of
\* analyze_transcript and analyze_sample (the same code but for the message
\* prefix and the sample flag).  "error" in x raises TypeError on a number;
\* x.get raises AttributeError on a list.
plugin_stages(v, content, prefix, flag, resp1, resp2, log_ok) ==
    LET e == create_evidence_registry(v, content, resp1) IN
    IF e.raised THEN Fault("Exception", e.calls)
    ELSE IF e.ret.t = "int" THEN Fault("TypeError", e.calls)
    ELSE IF e.ret.t = "obj" /\ e.ret.hasError THEN
        Http(500, ErrorBody(<<prefix>> \o e.ret.error), e.calls, <<>>)
    ELSE
        LET a == create_analysis(v, e.ret, resp2)
            c == e.calls + a.calls
        IN  IF a.raised THEN Fault("Exception", c)
            ELSE IF a.ret.t = "int" THEN Fault("TypeError", c)
            ELSE IF a.ret.t = "obj" /\ a.ret.hasError THEN
                Http(500, ErrorBody(<<prefix>> \o a.ret.error), c, <<>>)
            ELSE IF e.ret.t = "list" \/ a.ret.t = "list" THEN
                Fault("AttributeError", c)
            ELSE [Http(200, Merge(create_analysis_leaves(v, e.ret), a.ret, flag), c,
                       log_analysis(create_analysis_leaves(v, e.ret), a.ret,
                                    flag, log_ok))
                  EXCEPT !.logged = TRUE]

\* analysis.py, the try block of analyze_transcript
analyze_transcript_try(v, hasFile, file, docx_available, resp1, resp2, log_ok) ==
    IF ~hasFile THEN Http(400, ErrorBody(<<"No file provided">>), 0, <<>>)
    ELSE
        LET valid == validate_file(file.name, file.size)
            content == FileProcessor_read_file_content(file, docx_available)
        IN  IF ~valid.is_valid THEN Http(400, ErrorBody(valid.message), 0, <<>>)
            ELSE IF content.none THEN
                Http(400, ErrorBody(<<"Could not read file content. Please ensure it's a valid .txt or .docx file">>), 0, <<>>)
            ELSE plugin_stages(v, content.text, "Analysis failed: ", "false",
                               resp1, resp2, log_ok)

\* A plausible slip: no except clause around the handler's body.
analyze_transcript_uncaught(v, hasFile, file, docx_available, resp1, resp2, log_ok) ==
    analyze_transcript_try(v, hasFile, file, docx_available, resp1, resp2, log_ok)

\* analysis.py, analyze_transcript
analyze_transcript(v, hasFile, file, docx_available, resp1, resp2, log_ok) ==
    LET o == analyze_transcript_try(v, hasFile, file, docx_available,
                                    resp1, resp2, log_ok) IN
    IF o.exc # "none" THEN                          \* except Exception
        Http(500, ErrorBody(<<"Analysis failed due to an unexpected error. Please try again.">>),
             o.calls, <<>>)
    ELSE o

\* analysis.py, the try block of analyze_sample; sample is what
\* load_sample_transcript returned
analyze_sample_try(v, sample, resp1, resp2, log_ok) ==
    IF sample.none \/ TLen(sample.text) = 0 THEN
        Http(400, ErrorBody(<<"Sample transcript not available. Please try uploading your own file.">>), 0, <<>>)
    ELSE plugin_stages(v, sample.text, "Sample analysis failed: ", "true",
                       resp1, resp2, log_ok)

\* analysis.py, analyze_sample
analyze_sample(v, sample, resp1, resp2, log_ok) ==
    LET o == analyze_sample_try(v, sample, resp1, resp2, log_ok) IN
    IF o.exc # "none" THEN                          \* except Exception
        Http(500, ErrorBody(<<"Sample analysis failed due to an unexpected error. Please try again.">>),
             o.calls, <<>>)
    ELSE o

\* The JSON body of a deal-review request: kind "none" (get_json returns
\* nothing truthy: null, {}, []), "list" (a non-empty array) or "dict" with
\* its two fields; has_ev, has_an: the field is there and is not empty.
ReviewBodies ==
    {[kind |-> "none", has_ev |-> FALSE, has_an |-> FALSE],
     [kind |-> "list", has_ev |-> FALSE, has_an |-> FALSE]}
    \cup [kind : {"dict"}, has_ev : BOOLEAN, has_an : BOOLEAN]

\* analysis.py, the try block of generate_deal_review
generate_deal_review_try(v, data, ev, an, resp) ==
    IF data.kind = "none" THEN Http(400, ErrorBody(<<"Invalid request data">>), 0, <<>>)
    ELSE IF data.kind = "list" THEN Fault("AttributeError", 0)    \* data.get
    ELSE IF ~data.has_ev \/ ~data.has_an THEN
        Http(400, ErrorBody(<<"Missing analysis data for deal review">>), 0, <<>>)
    ELSE
        LET r == create_deal_review(v, ev, an, resp) IN
        IF r.raised THEN Fault("Exception", r.calls)
        ELSE IF r.ret.t = "int" THEN Fault("TypeError", r.calls)
        ELSE IF r.ret.t = "obj" /\ r.ret.hasError THEN
            Http(500, ErrorBody(<<"Deal review failed: ">> \o r.ret.error), r.calls, <<>>)
        ELSE Http(200, r.ret, r.calls, <<>>)

\* analysis.py, generate_deal_review
generate_deal_review(v, data, ev, an, resp) ==
    LET o == generate_deal_review_try(v, data, ev, an, resp) IN
    IF o.exc # "none" THEN                          \* except Exception
        Http(500, ErrorBody(<<"Deal review failed due to an unexpected error. Please try again.">>),
             o.calls, <<>>)
    ELSE o

\* app.py, the two stages and the merge of analyze and analyze_sample (the
\* same code but for the message prefix and the sample flag).  {**x, **y}
\* raises TypeError when x or y is a list.
app_stages(content, prefix, flag, resp1, resp2) ==
    LET e == app_create_evidence_registry(content, resp1) IN
    IF e.raised THEN Fault("Exception", e.calls)
    ELSE IF e.ret.t = "int" THEN Fault("TypeError", e.calls)
    ELSE IF e.ret.t = "obj" /\ e.ret.hasError THEN
        Http(500, ErrorBody(<<prefix>> \o e.ret.error), e.calls, <<>>)
    ELSE
        LET a == app_create_analysis(e.ret, resp2)
            c == e.calls + a.calls
        IN  IF a.raised THEN Fault("Exception", c)
            ELSE IF a.ret.t = "int" THEN Fault("TypeError", c)
            ELSE IF a.ret.t = "obj" /\ a.ret.hasError THEN
                Http(500, ErrorBody(<<prefix>> \o a.ret.error), c, <<>>)
            ELSE IF e.ret.t = "list" \/ a.ret.t = "list" THEN Fault("TypeError", c)
            ELSE Http(200, Merge(create_analysis_leaves("standalone", e.ret),
                                 a.ret, flag), c, <<>>)

\* app.py, the try block of analyze
app_analyze_try(file, docx_available, resp1, resp2) ==
    LET content == app_read_file_content(file, docx_available) IN
    IF content.none THEN
        Http(400, ErrorBody(<<"Could not read file content. Please ensure it's a valid text file.">>), 0, <<>>)
    ELSE app_stages(content.text, "Analysis failed: ", "absent", resp1, resp2)

\* app.py, analyze.  limited: the rate limiter is there and refuses the
\* request; authed: the session holds a user.  ANTHROPIC_API_KEY is
\* configured (without it app.py raises ValueError when it is imported).
app_analyze(limited, authed, hasFile, file, docx_available, resp1, resp2) ==
    IF limited THEN
        Http(429, ErrorBody(<<"Too many analysis requests. Please wait before trying again.">>), 0, <<>>)
    ELSE IF ~authed THEN Http(401, ErrorBody(<<"Authentication required">>), 0, <<>>)
    ELSE IF ~hasFile THEN Http(400, ErrorBody(<<"No file uploaded">>), 0, <<>>)
    ELSE IF ~validate_file(file.name, file.size).is_valid THEN
        Http(400, ErrorBody(validate_file(file.name, file.size).message), 0, <<>>)
    ELSE
        LET o == app_analyze_try(file, docx_available, resp1, resp2) IN
        IF o.exc # "none" THEN                      \* except Exception
            Http(500, ErrorBody(<<"Analysis failed due to an unexpected error. Please try again.">>),
                 o.calls, <<>>)
        ELSE o

\* app.py, the try block of analyze_sample
app_analyze_sample_try(sample, resp1, resp2) ==
    IF sample.none \/ TLen(sample.text) = 0 THEN
        Http(400, ErrorBody(<<"Sample transcript not available. Please try uploading your own file.">>), 0, <<>>)
    ELSE app_stages(sample.text, "Sample analysis failed: ", "true", resp1, resp2)

\* app.py, analyze_sample
app_analyze_sample(limited, authed, sample, resp1, resp2) ==
    IF limited THEN
        Http(429, ErrorBody(<<"Too many analysis requests. Please wait before trying again.">>), 0, <<>>)
    ELSE IF ~authed THEN Http(401, ErrorBody(<<"Authentication required">>), 0, <<>>)
    ELSE
        LET o == app_analyze_sample_try(sample, resp1, resp2) IN
        IF o.exc # "none" THEN                      \* except Exception
            Http(500, ErrorBody(<<"Sample analysis failed due to an unexpected error. Please try again.">>),
                 o.calls, <<>>)
        ELSE o

\* app.py, the try block of create_deal_review_endpoint
app_deal_review_try(data, ev, an, resp) ==
    IF data.kind = "none" THEN Http(400, ErrorBody(<<"Invalid request data">>), 0, <<>>)
    ELSE IF data.kind = "list" THEN Fault("AttributeError", 0)    \* data.get
    ELSE IF ~data.has_ev \/ ~data.has_an THEN
        Http(400, ErrorBody(<<"Missing analysis data for deal review">>), 0, <<>>)
    ELSE
        LET r == app_create_deal_review(ev, an, resp) IN
        IF r.raised THEN Fault("Exception", r.calls)
        ELSE IF r.ret.t = "int" THEN Fault("TypeError", r.calls)
        ELSE IF r.ret.t = "obj" /\ r.ret.hasError THEN
            Http(500, ErrorBody(<<"Deal review failed: ">> \o r.ret.error), r.calls, <<>>)
        ELSE Http(200, r.ret, r.calls, <<>>)

\* app.py, create_deal_review_endpoint
create_deal_review_endpoint(limited, authed, data, ev, an, resp) ==
    IF limited THEN
        Http(429, ErrorBody(<<"Too many requests. Please wait before trying again.">>), 0, <<>>)
    ELSE IF ~authed THEN Http(401, ErrorBody(<<"Authentication required">>), 0, <<>>)
    ELSE
        LET o == app_deal_review_try(data, ev, an, resp) IN
        IF o.exc # "none" THEN                      \* except Exception
            Http(500, ErrorBody(<<"Deal review failed due to an unexpected error. Please try again.">>),
                 o.calls, <<>>)
        ELSE o

\* A frame of the event stream, f"data: {json.dumps(update)}\\n\\n": the
\* update's keys and values.  hasComplete tells whether it has a "complete"
\* key: the events of create_analysis_streamed have one, the error events
\* the handlers build themselves have none.
Sse(u) ==
    [stage |-> u.stage, status |-> u.status, hasData |-> u.hasData,
     data |-> u.data, hasComplete |-> TRUE, complete |-> u.complete,
     error |-> u.error]
HandlerError(msg) ==
    [stage |-> "error", status |-> "none", hasData |-> FALSE, data |-> EmptyDict,
     hasComplete |-> FALSE, complete |-> FALSE, error |-> msg]

\* bool(x) of a JSON value: a dict with a key, a list with an element
Truthy(d) == d.t # "obj" \/ d # EmptyDict

\* evidence_data, analysis_data of generate(): the data of the last update
\* of that stage with status "complete"; none: the local is still None
Stored(evs, stage) ==
    LET S == {i \in DOMAIN evs : evs[i].stage = stage /\ evs[i].status = "complete"}
    IN  IF S = {} THEN [none |-> TRUE, data |-> EmptyDict]
        ELSE [none |-> FALSE,
              data |-> evs[CHOOSE i \in S : \A j \in S : j <= i].data]

\* One resumption of generate(): where it suspends next (hpc), the frames it
\* yields there, the text it read (content), what its pull of
\* create_analysis_streamed did (inner), the dataset rows it appended.
GenStep(to, yield, content, inner, rws) ==
    [hpc |-> to, yield |-> yield, content |-> content, inner |-> inner,
     rows |-> rws]
NoPull(at, ev) == Step(at, <<>>, ev, 0, <<>>)

\* A plausible slip: the logging is not under "if evidence_data and
\* analysis_data", it is done whenever the evidence stage completed.
stream_logging_unguarded(content, at, ev, evs, flag, log_ok) ==
    IF Stored(evs, "evidence").none \/ Stored(evs, "evidence").data.t = "list"
    THEN GenStep("closed", <<>>, content, NoPull(at, ev), <<>>)
    ELSE GenStep("closed", <<>>, content, NoPull(at, ev),
                 log_analysis(Stored(evs, "evidence").data, EmptyDict, flag, log_ok))

\* analysis.py, generate(): what follows the for loop, the logging under
\* "if evidence_data and analysis_data".  x.get raises AttributeError on a
\* list, and the except clause yields one more error frame.
stream_logging(content, at, ev, evs, flag, log_ok) ==
    IF Stored(evs, "evidence").none \/ Stored(evs, "analysis").none
       \/ ~Truthy(Stored(evs, "evidence").data)
       \/ ~Truthy(Stored(evs, "analysis").data)
    THEN GenStep("closed", <<>>, content, NoPull(at, ev), <<>>)
    ELSE IF Stored(evs, "evidence").data.t = "list"
            \/ Stored(evs, "analysis").data.t = "list"
    THEN GenStep("last", <<HandlerError(<<StrE>>)>>, content, NoPull(at, ev), <<>>)
    ELSE GenStep("closed", <<>>, content, NoPull(at, ev),
                 log_analysis(Stored(evs, "evidence").data,
                              Stored(evs, "analysis").data, flag, log_ok))

\* analysis.py, generate(): one turn of "for update in
\* llm_client.create_analysis_streamed(content)": the pull, then the yield
\* of the frame, or the end of the loop and the logging
stream_loop(v, at, content, ev, evs, flag, resp, log_ok) ==
    IF create_analysis_streamed(v, at, content, ev, resp).yield # <<>> THEN
        GenStep("looping",
                <<Sse(create_analysis_streamed(v, at, content, ev, resp).yield[1])>>,
                content, create_analysis_streamed(v, at, content, ev, resp), <<>>)
    ELSE stream_logging(content, "closed", ev, evs, flag, log_ok)

\* analysis.py, analyze_transcript_stream.generate
analyze_transcript_stream_generate(v, hat, at, hasFile, file, docx_available, content, ev, evs, resp, log_ok) ==
    CASE hat = "created" ->
            IF ~hasFile THEN
                GenStep("last", <<HandlerError(<<"No file provided">>)>>, content,
                        NoPull(at, ev), <<>>)
            ELSE IF ~validate_file(file.name, file.size).is_valid THEN
                GenStep("last",
                        <<HandlerError(validate_file(file.name, file.size).message)>>,
                        content, NoPull(at, ev), <<>>)
            ELSE IF FileProcessor_read_file_content(file, docx_available).none THEN
                GenStep("last", <<HandlerError(<<"Could not read file content">>)>>,
                        content, NoPull(at, ev), <<>>)
            ELSE stream_loop(v, "created",
                             FileProcessor_read_file_content(file, docx_available).text,
                             ev, evs, "false", resp, log_ok)
      [] hat = "looping" ->
            stream_loop(v, at, content, ev, evs, "false", resp, log_ok)
      [] hat = "last" -> GenStep("closed", <<>>, content, NoPull(at, ev), <<>>)

\* analysis.py, analyze_sample_stream.generate
analyze_sample_stream_generate(v, hat, at, sample, content, ev, evs, resp, log_ok) ==
    CASE hat = "created" ->
            IF sample.none \/ TLen(sample.text) = 0 THEN
                GenStep("last",
                        <<HandlerError(<<"Sample transcript not available">>)>>,
                        content, NoPull(at, ev), <<>>)
            ELSE stream_loop(v, "created", sample.text, ev, evs, "true", resp, log_ok)
      [] hat = "looping" ->
            stream_loop(v, at, content, ev, evs, "true", resp, log_ok)
      [] hat = "last" -> GenStep("closed", <<>>, content, NoPull(at, ev), <<>>)

\* What google_auth and logout answer, and the session they leave
Auth(st, b, sess) == [status |-> st, body |-> b, session |-> sess]

\* app.py, google_auth.  token: "none" (no token in the body), "invalid"
\* (verify_oauth2_token raises ValueError), "issuer" (verified, of another
\* issuer), "incomplete" (verified, without email, name or sub: KeyError
\* while the user record is built, before it is stored) or "valid".
google_auth(sess, token) ==
    CASE token = "none" -> Auth(400, ErrorBody(<<"No token provided">>), sess)
      [] token = "invalid" -> Auth(400, ErrorBody(<<"Invalid token: ", StrE>>), sess)
      [] token = "issuer" -> Auth(400, ErrorBody(<<"Invalid token issuer">>), sess)
      [] token = "incomplete" -> Auth(500, ErrorBody(<<StrE>>), sess)
      [] token = "valid" -> Auth(200, EmptyDict, sess \cup {"user"})

\* A plausible slip: logout answers without clearing the session.
logout_kept(sess) == Auth(200, EmptyDict, sess)

\* app.py, logout: session.clear()
logout(sess) == Auth(200, EmptyDict, {})

\* The endpoints, by deployment
HandleAnalyze(v, limited, authed, hasFile, file, docx_available, resp1, resp2, log_ok) ==
    IF v = "standalone"
    THEN app_analyze(limited, authed, hasFile, file, docx_available, resp1, resp2)
    ELSE analyze_transcript(v, hasFile, file, docx_available, resp1, resp2, log_ok)

HandleAnalyzeSample(v, limited, authed, sample, resp1, resp2, log_ok) ==
    IF v = "standalone" THEN app_analyze_sample(limited, authed, sample, resp1, resp2)
    ELSE analyze_sample(v, sample, resp1, resp2, log_ok)

HandleDealReview(v, limited, authed, data, ev, an, resp) ==
    IF v = "standalone" THEN create_deal_review_endpoint(limited, authed, data, ev, an, resp)
    ELSE generate_deal_review(v, data, ev, an, resp)

-----------------------------------------------------------------------------
(* Inputs: the answers of the model service *)

\* {"error": ...}: a model answer that itself carries an "error" key
ModelError == [EmptyDict EXCEPT !.hasError = TRUE, !.error = <<"<model text>">>]

Failures == {Raises(e) : e \in {"APIError", "Exception"}} \cup {Garbage}

EvidenceAnswers ==
    Failures
    \cup {Answer(Registry(n)) : n \in 0..MaxEvidence}
    \cup {Answer(d) : d \in {EmptyDict, ModelError, ListValue, IntValue}}

\* A framework as the model may send it: absent, no object, or an object
\* listing some of its dimensions in any order (DistinctSeqs(S, n): the
\* sequences of distinct elements of S, at most n long)
RawFws(f) ==
    LET DistinctSeqs(S, n) ==
            {q \in UNION {[1..k -> S] : k \in 0..n} :
                \A i, j \in DOMAIN q : i # j => q[i] # q[j]}
        KeyBound == IF f = "meddic" THEN MaxMeddicKeys ELSE MaxKeys
    IN  {AbsentFw, NonObjFw}
        \cup {ObjFw([i \in DOMAIN ks |-> <<ks[i], "entry">>]) :
                ks \in DistinctSeqs(Range(Canonical(f)), KeyBound)}

AnalysisAnswers(v) ==
    LET AnalysisObjects ==
            IF v = "plugin" THEN
                {[EmptyDict EXCEPT !.fw = [NoFw EXCEPT !["sales_whys"] = a,
                                                       !["business_context"] = b,
                                                       !["meddic"] = c]] :
                    a \in RawFws("sales_whys"), b \in RawFws("business_context"),
                    c \in RawFws("meddic")}
            ELSE
                {[EmptyDict EXCEPT !.fw = [NoFw EXCEPT !["three_whys"] = a,
                                                       !["meddic"] = c]] :
                    a \in RawFws("three_whys"), c \in RawFws("meddic")}
    IN  Failures
        \cup {Answer(d) : d \in AnalysisObjects}
        \cup {Answer(d) : d \in {ModelError, ListValue, IntValue}}

ReviewAnswers ==
    Failures
    \cup {Answer(Review(st, g)) :
            st \in {"More Discovery Needed", "Ready for Demo"}, g \in 0..MaxEvidence}
    \cup {Answer(d) : d \in {ModelError, ListValue, IntValue}}

\* A framework with its last dimension listed before its first
Reversed(f) ==
    ObjFw(<<<<Canonical(f)[Len(Canonical(f))], "entry">>,
            <<Canonical(f)[1], "entry">>>>)

\* A smaller choice of analysis answers, for the runs of several steps
SmallFws(f) == {AbsentFw, NonObjFw, Reversed(f)}

SmallAnalysisAnswers(v) ==
    LET AnalysisObjects ==
            IF v = "plugin" THEN
                {[EmptyDict EXCEPT !.fw = [NoFw EXCEPT !["sales_whys"] = a,
                                                       !["business_context"] = b,
                                                       !["meddic"] = c]] :
                    a \in SmallFws("sales_whys"), b \in SmallFws("business_context"),
                    c \in SmallFws("meddic")}
            ELSE
                {[EmptyDict EXCEPT !.fw = [NoFw EXCEPT !["three_whys"] = a,
                                                       !["meddic"] = c]] :
                    a \in SmallFws("three_whys"), c \in SmallFws("meddic")}
    IN  Failures
        \cup {Answer(d) : d \in AnalysisObjects}
        \cup {Answer(d) : d \in {ModelError, ListValue, IntValue}}

\* The transcripts of the runs of several steps: around the two bounds
StreamTranscripts ==
    {t \in Transcripts :
        t.lead = 0 /\ t.body \in Near(MIN_TRANSCRIPT_LEN) \cup Near(MAX_TRANSCRIPT_LEN)}

\* The answers drawn for the request handlers (among those of the analysis
\* stage one that carries an "evidence_registry" key of its own, {})
HandlerEvidenceAnswers ==
    Failures
    \cup {Answer(d) : d \in {Registry(MaxEvidence), ModelError, ListValue, IntValue}}

HandlerAnalysisAnswers(v) ==
    Failures
    \cup {Answer(d) : d \in {ModelError, ListValue, IntValue, EmptyDict}}
    \cup {Answer([EmptyDict EXCEPT !.fw =
                [f \in AllFrameworks |->
                    IF f \in FrameworksOf(v) THEN Reversed(f) ELSE AbsentFw]])}
    \cup {Answer([EmptyDict EXCEPT !.fw = [NoFw EXCEPT !["meddic"] = NonObjFw]])}
    \cup {Answer([EmptyDict EXCEPT !.hasReg = TRUE])}

\* The uploads drawn for the request handlers: plain-text files named a.txt
\* of every length around the bounds (an ASCII text is as many bytes as
\* characters), one text under other names, bytes that do not decode, and
\* documents under several content types
GoodText == [lead |-> 0, body |-> MIN_TRANSCRIPT_LEN, trail |-> 0]
ShortText == [lead |-> 0, body |-> MIN_CONTENT_LEN - 1, trail |-> 0]

PlainFile(name, t) ==
    [name |-> name, size |-> TLen(t), ctype |-> "text/plain", decodable |-> TRUE,
     parses |-> FALSE, text |-> t]

UploadFiles ==
    LET UploadTexts ==
            [lead : {0},
             body : Near(0) \cup Near(MIN_CONTENT_LEN) \cup Near(MIN_TRANSCRIPT_LEN)
                        \cup Near(MAX_TRANSCRIPT_LEN),
             trail : {0, MAX_FILE_SIZE}]
    IN
    {PlainFile(<<"a", "txt">>, t) : t \in UploadTexts}
    \cup {PlainFile(nm, GoodText) : nm \in {<<"a", "pdf">>, <<"a">>, <<"">>, <<"a", "TXT">>}}
    \cup {[PlainFile(<<"a", "txt">>, GoodText) EXCEPT !.decodable = FALSE]}
    \cup {[name |-> <<"a", "docx">>, size |-> 1 + Slack, ctype |-> c,
           decodable |-> FALSE, parses |-> ok, text |-> t] :
            c \in {DOCX_MIME, "application/octet-stream", "application/pdf", ""},
            ok \in BOOLEAN, t \in {GoodText, ShortText}}

\* What load_sample_transcript returns: None, or the text of the file
Samples == {NoContent} \cup {Content(t) : t \in {GoodText, ShortText}}
              \cup {Content([lead |-> 0, body |-> 0, trail |-> 0])}

\* The texts handed to clean_json_response.  A JSON object of the model is
\* {"a": value} or {}; a content is such an object as the model wrote it
\* (raw), perhaps with a comma before a closing bracket, and the same object
\* without those commas (fixed).  kind "json": a valid JSON object alone
\* (among its values strings that hold a comma before a bracket, or a
\* fence); "fenced": a text with a fenced json block, prose or braces before
\* and after it, perhaps a second block; "free": any text of at most MaxText
\* brackets, commas, blanks and digits.
CleanInputs ==
    LET Q == "\""
        Same(t) == [raw |-> t, fixed |-> t]
        PlainValues == {<<"1">>, <<Q, "a", Q>>, <<"[", "1", "]">>, <<"{", "}">>}
        TrickyValues ==
            {<<Q, ",", "}", Q>>, <<Q, "a", ",", " ", "]", Q>>,
             <<Q, FENCE, "{", "}", FENCE, Q>>}
        TrailingCommas ==
            {Same(<<>>), [raw |-> <<",">>, fixed |-> <<>>],
             [raw |-> <<",", " ">>, fixed |-> <<" ">>]}
        Object(v, c) ==
            [raw |-> <<"{", Q, "a", Q, ":">> \o v.raw \o c.raw \o <<"}">>,
             fixed |-> <<"{", Q, "a", Q, ":">> \o v.fixed \o c.fixed \o <<"}">>]
        CleanJsonObjects ==
            {Object(Same(v), Same(<<>>)).raw : v \in PlainValues \cup TrickyValues}
            \cup {<<"{", "}">>, <<"{", " ", "}">>}
        FenceContents ==
            {Object(Same(v), c) : v \in PlainValues, c \in TrailingCommas}
            \cup {Object([raw |-> <<"[", "1", ",", "]">>,
                          fixed |-> <<"[", "1", "]">>], c) : c \in TrailingCommas}
            \cup {Same(<<"{", "}">>)}
        Block(content, json, w) ==
            <<FENCE>> \o (IF json THEN <<"json">> ELSE <<>>) \o w \o content \o w
                \o <<FENCE>>
        Input(kind, text, content, blocks) ==
            [kind |-> kind, text |-> text, content |-> content, blocks |-> blocks]
    IN  {Input("json", t, Same(t), 0) : t \in CleanJsonObjects}
        \cup {Input("fenced", pre \o Block(c.raw, TRUE, w) \o post, c, 1) :
                pre \in {<<>>, <<"a", " ">>, <<"{", "a", "}", " ">>},
                w \in {<<>>, <<" ">>}, c \in FenceContents,
                post \in {<<>>, <<" ", "a">>, <<" ", "{", "a", "}">>}}
        \cup {Input("fenced",
                    pre \o Block(c.raw, TRUE, w) \o <<" ", "a", " ">>
                        \o Block(<<"{", "}">>, j, w), c, 2) :
                pre \in {<<>>, <<"a", " ">>}, w \in {<<>>, <<" ">>},
                c \in FenceContents, j \in BOOLEAN}
        \cup {Input("free", t, Same(t), 0) :
                t \in UNION {[1..n -> {",", " ", "}", "]", "{", "1"}] :
                                n \in 0..MaxText}}

\* A few evidence registries and analyses, as arguments of the later stages
SomeEvidence == {Registry(n) : n \in 0..MaxEvidence} \cup {EmptyDict, Registry(3)}
SomeAnalyses == {MockAnalysis, EmptyDict}

-----------------------------------------------------------------------------
(* State machine: direct calls of the client and the file processor *)

TypeOK ==
    /\ variant \in Variants
    /\ op \in {"none", "validate_file", "create_evidence_registry",
               "create_analysis", "create_deal_review", "read_file_content",
               "clean_json_response",
               "create_analysis_streamed", "analyze", "analyze_sample",
               "deal_review", "analyze_stream", "analyze_sample_stream",
               "google_auth", "logout"}
    /\ raised \in BOOLEAN
    /\ calls \in Nat
    /\ status \in Nat
    /\ pc \in {"idle", "created", "ev_started", "ev_complete", "an_started",
               "last", "closed"}
    /\ hpc \in {"idle", "created", "looping", "last", "closed"}
    /\ Len(events) <= 4
    /\ Len(frames) <= 5
    /\ session \subseteq {"user"}
    /\ waited \in 0..MaxLogTime

Init ==
    /\ variant \in Variants
    /\ op = "none"
    /\ req = [none |-> TRUE]
    /\ ret = EmptyDict
    /\ raised = FALSE
    /\ calls = 0
    /\ status = 0
    /\ body = EmptyDict
    /\ pc = "idle"
    /\ events = <<>>
    /\ evidence_result = EmptyDict
    /\ rows = <<>>
    /\ hpc = "idle"
    /\ frames = <<>>
    /\ session = {}
    /\ waited = 0
    /\ dataset = [exists |-> FALSE, schema |-> FALSE, creates |-> 0, rows |-> <<>>]
    /\ thread = [t \in 1..MaxRequests |-> [pc |-> "idle", dataset_exists |-> FALSE,
                                          logged |-> "none"]]

\* What every call outside the streaming generator leaves behind
NoStream ==
    /\ pc' = "idle" /\ events' = <<>> /\ evidence_result' = EmptyDict
    /\ hpc' = "idle" /\ frames' = <<>>
NoResponse ==
    /\ status' = 0 /\ body' = EmptyDict /\ rows' = <<>> /\ waited' = 0
    /\ UNCHANGED cvars

CallValidateFile ==
    /\ op = "none"
    /\ \E name \in FileNames, size \in FileSizes :
        LET r == validate_file(name, size) IN
        /\ op' = "validate_file"
        /\ req' = [name |-> name, size |-> size]
        /\ ret' = [EmptyDict EXCEPT !.hasError = ~r.is_valid, !.error = r.message]
        /\ raised' = FALSE
        /\ calls' = 0
        /\ NoStream /\ NoResponse
        /\ UNCHANGED <<variant, session>>

\* read_file_content(file) is called on an upload (the handlers call it on
\* the files validate_file accepted; the function itself takes any)
CallReadFileContent ==
    /\ op = "none"
    /\ \E file \in UploadFiles, docx_available \in BOOLEAN :
        /\ op' = "read_file_content"
        /\ req' = [file |-> file, docx_available |-> docx_available]
        /\ ret' = read_file_content(variant, file, docx_available)
        /\ raised' = FALSE
        /\ calls' = 0
        /\ NoStream /\ NoResponse
        /\ UNCHANGED <<variant, session>>

\* clean_json_response(text) is called
CallCleanJsonResponse ==
    /\ op = "none"
    /\ \E x \in CleanInputs :
        /\ op' = "clean_json_response"
        /\ req' = x
        /\ ret' = clean_json_response(x.text)
        /\ raised' = FALSE
        /\ calls' = 0
        /\ NoStream /\ NoResponse
        /\ UNCHANGED <<variant, session>>

CallCreateEvidenceRegistry ==
    /\ op = "none"
    /\ \E transcript \in Transcripts, resp \in EvidenceAnswers :
        LET r == create_evidence_registry(variant, transcript, resp) IN
        /\ op' = "create_evidence_registry"
        /\ req' = [transcript |-> transcript, resp |-> resp]
        /\ ret' = r.ret
        /\ raised' = r.raised
        /\ calls' = r.calls
        /\ NoStream /\ NoResponse
        /\ UNCHANGED <<variant, session>>

CallCreateAnalysis ==
    /\ op = "none"
    /\ \E ev \in {Registry(MaxEvidence)}, resp \in AnalysisAnswers(variant) :
        LET r == create_analysis(variant, ev, resp) IN
        /\ op' = "create_analysis"
        /\ req' = [evidence_registry |-> ev, resp |-> resp,
                   left |-> create_analysis_leaves(variant, ev)]
        /\ ret' = r.ret
        /\ raised' = r.raised
        /\ calls' = r.calls
        /\ NoStream /\ NoResponse
        /\ UNCHANGED <<variant, session>>

CallCreateDealReview ==
    /\ op = "none"
    /\ \E ev \in SomeEvidence, an \in SomeAnalyses, resp \in ReviewAnswers :
        LET r == create_deal_review(variant, ev, an, resp) IN
        /\ op' = "create_deal_review"
        /\ req' = [evidence_registry |-> ev, analysis_data |-> an, resp |-> resp,
                   left |-> create_deal_review_leaves(variant, ev, an)]
        /\ ret' = r.ret
        /\ raised' = r.raised
        /\ calls' = r.calls
        /\ NoStream /\ NoResponse
        /\ UNCHANGED <<variant, session>>

\* create_analysis_streamed(transcript) is called: a generator is made, and
\* none of its code runs before the first pull.
StreamCreate ==
    /\ op = "none"
    /\ variant \in {"plugin", "mock"}
    /\ \E transcript \in StreamTranscripts :
        /\ op' = "create_analysis_streamed"
        /\ req' = [transcript |-> transcript, results |-> <<>>]
        /\ pc' = "created"
        /\ events' = <<>>
        /\ evidence_result' = EmptyDict
        /\ calls' = 0
        /\ ret' = EmptyDict
        /\ raised' = FALSE
        /\ hpc' = "idle" /\ frames' = <<>>
        /\ NoResponse
        /\ UNCHANGED <<variant, session>>

\* The consumer pulls: the generator runs to its next yield, or to its end.
StreamPull ==
    /\ op = "create_analysis_streamed"
    /\ pc \in {"created", "ev_started", "ev_complete", "an_started", "last"}
    /\ \E resp \in (CASE pc = "ev_started" -> EvidenceAnswers
                      [] pc = "an_started" -> SmallAnalysisAnswers(variant)
                      [] OTHER -> {Garbage}) :
        LET st == create_analysis_streamed(variant, pc, req.transcript,
                                           evidence_result, resp) IN
        /\ pc' = st.pc
        /\ events' = events \o st.yield
        /\ evidence_result' = st.evidence_result
        /\ calls' = calls + st.calls
        /\ req' = [req EXCEPT !.results = @ \o st.results]
        /\ UNCHANGED <<variant, op, ret, raised, status, body, rows, hpc, frames,
                       session, waited, cvars>>

\* The inputs a handler consumed: the answers to the model calls it made
Consumed(r, resps) == SubSeq(resps, 1, r.calls)

\* log_time: the time log_analysis takes when the handler calls it; the
\* call is an ordinary one, the return statement follows it
Respond(r, log_time) ==
    /\ status' = r.status
    /\ waited' = (IF r.logged THEN log_time ELSE 0)
    /\ UNCHANGED cvars
    /\ body' = r.body
    /\ calls' = r.calls
    /\ rows' = r.rows
    /\ ret' = EmptyDict
    /\ raised' = (r.exc # "none")
    /\ NoStream
    /\ UNCHANGED <<variant, session>>

\* POST /analyze
ReqAnalyze ==
    /\ op = "none"
    /\ \E limited \in (IF variant = "standalone" THEN BOOLEAN ELSE {FALSE}),
          authed \in {variant # "standalone" \/ "user" \in session},
          hasFile \in BOOLEAN, file \in UploadFiles, docx_available \in BOOLEAN,
          resp1 \in HandlerEvidenceAnswers,
          resp2 \in HandlerAnalysisAnswers(variant),
          log_ok \in (IF variant = "standalone" THEN {FALSE} ELSE BOOLEAN),
          log_time \in (IF variant = "standalone" THEN {0} ELSE 0..MaxLogTime) :
        \E r \in {HandleAnalyze(variant, limited, authed, hasFile, file,
                                docx_available, resp1, resp2, log_ok)} :
        /\ op' = "analyze"
        /\ req' = [limited |-> limited, authed |-> authed, hasFile |-> hasFile,
                   file |-> file, docx_available |-> docx_available,
                   answers |-> Consumed(r, <<resp1, resp2>>),
                   log_ok |-> log_ok /\ r.status = 200,
                   log_time |-> IF r.logged THEN log_time ELSE 0]
        /\ Respond(r, log_time)

\* POST /analyze-sample
ReqAnalyzeSample ==
    /\ op = "none"
    /\ \E limited \in (IF variant = "standalone" THEN BOOLEAN ELSE {FALSE}),
          authed \in {variant # "standalone" \/ "user" \in session},
          sample \in Samples,
          resp1 \in HandlerEvidenceAnswers,
          resp2 \in HandlerAnalysisAnswers(variant),
          log_ok \in (IF variant = "standalone" THEN {FALSE} ELSE BOOLEAN),
          log_time \in (IF variant = "standalone" THEN {0} ELSE 0..MaxLogTime) :
        \E r \in {HandleAnalyzeSample(variant, limited, authed, sample,
                                      resp1, resp2, log_ok)} :
        /\ op' = "analyze_sample"
        /\ req' = [limited |-> limited, authed |-> authed, sample |-> sample,
                   answers |-> Consumed(r, <<resp1, resp2>>),
                   log_ok |-> log_ok /\ r.status = 200,
                   log_time |-> IF r.logged THEN log_time ELSE 0]
        /\ Respond(r, log_time)

\* POST /deal-review
ReqDealReview ==
    /\ op = "none"
    /\ \E limited \in (IF variant = "standalone" THEN BOOLEAN ELSE {FALSE}),
          authed \in {variant # "standalone" \/ "user" \in session},
          data \in ReviewBodies, resp \in ReviewAnswers :
        \E r \in {HandleDealReview(variant, limited, authed, data,
                                   Registry(MaxEvidence), MockAnalysis, resp)} :
        /\ op' = "deal_review"
        /\ req' = [limited |-> limited, authed |-> authed, data |-> data,
                   answers |-> Consumed(r, <<resp>>)]
        /\ Respond(r, 0)

\* POST /analyze-stream, with the plain-text uploads around the bounds, one
\* file of a disallowed type and one that does not decode: the response is
\* made around generate(), none of
\* whose code has run; its status is that of Response(...), 200.
ReqAnalyzeStream ==
    /\ op = "none"
    /\ variant \in {"plugin", "mock"}
    /\ \E hasFile \in BOOLEAN, docx_available \in BOOLEAN,
          file \in {f \in UploadFiles : f.ctype = "text/plain"
                                         /\ f.name \in {<<"a", "txt">>, <<"a", "pdf">>}} :
        /\ op' = "analyze_stream"
        /\ req' = [hasFile |-> hasFile, file |-> file,
                   docx_available |-> docx_available, content |-> NoContent.text,
                   results |-> <<>>, answers |-> <<>>]
        /\ hpc' = "created"
    /\ frames' = <<>>
    /\ status' = 200
    /\ body' = EmptyDict /\ rows' = <<>> /\ waited' = 0
    /\ UNCHANGED cvars
    /\ pc' = "idle" /\ events' = <<>> /\ evidence_result' = EmptyDict
    /\ calls' = 0 /\ ret' = EmptyDict /\ raised' = FALSE
    /\ UNCHANGED <<variant, session>>

\* POST /analyze-sample-stream
ReqAnalyzeSampleStream ==
    /\ op = "none"
    /\ variant \in {"plugin", "mock"}
    /\ \E sample \in Samples :
        /\ op' = "analyze_sample_stream"
        /\ req' = [sample |-> sample, content |-> NoContent.text, results |-> <<>>,
                   answers |-> <<>>]
        /\ hpc' = "created"
    /\ frames' = <<>>
    /\ status' = 200
    /\ body' = EmptyDict /\ rows' = <<>> /\ waited' = 0
    /\ UNCHANGED cvars
    /\ pc' = "idle" /\ events' = <<>> /\ evidence_result' = EmptyDict
    /\ calls' = 0 /\ ret' = EmptyDict /\ raised' = FALSE
    /\ UNCHANGED <<variant, session>>

\* The server pulls the next frame of a streaming response: generate() runs
\* to its next yield, or to its end.
FramePull ==
    /\ op \in {"analyze_stream", "analyze_sample_stream"}
    /\ hpc \in {"created", "looping", "last"}
    /\ \E resp \in (CASE hpc = "looping" /\ pc = "ev_started" -> HandlerEvidenceAnswers
                      [] hpc = "looping" /\ pc = "an_started" ->
                            HandlerAnalysisAnswers(variant)
                      [] OTHER -> {Garbage}),
          log_ok \in (IF hpc = "looping" /\ pc = "last" THEN BOOLEAN ELSE {FALSE}) :
        \E g \in {IF op = "analyze_stream"
                   THEN analyze_transcript_stream_generate(
                            variant, hpc, pc, req.hasFile, req.file,
                            req.docx_available, req.content, evidence_result,
                            events, resp, log_ok)
                   ELSE analyze_sample_stream_generate(
                            variant, hpc, pc, req.sample, req.content,
                            evidence_result, events, resp, log_ok)} :
            /\ hpc' = g.hpc
            /\ frames' = frames \o g.yield
            /\ pc' = g.inner.pc
            /\ events' = events \o g.inner.yield
            /\ evidence_result' = g.inner.evidence_result
            /\ calls' = calls + g.inner.calls
            /\ rows' = rows \o g.rows
            /\ req' = [req EXCEPT !.content = g.content,
                                  !.results = @ \o g.inner.results,
                                  !.answers = @ \o (IF g.inner.calls > 0
                                                    THEN <<resp>> ELSE <<>>)]
    /\ UNCHANGED <<variant, op, ret, raised, status, body, session, waited, cvars>>

\* POST /api/auth/google and POST /api/auth/logout.  The limiter's default
\* limits hold for every route: a refused request is answered 429 before
\* the handler runs.
ReqGoogleAuth ==
    /\ op = "none"
    /\ variant = "standalone"
    /\ \E limited \in BOOLEAN,
          token \in {"none", "invalid", "issuer", "incomplete", "valid"} :
        \E r \in {IF limited THEN Auth(429, EmptyDict, session)
                   ELSE google_auth(session, token)} :
            /\ op' = "google_auth"
            /\ req' = [limited |-> limited, token |-> token]
            /\ status' = r.status /\ body' = r.body /\ session' = r.session
    /\ rows' = <<>> /\ calls' = 0 /\ ret' = EmptyDict /\ raised' = FALSE
    /\ waited' = 0
    /\ NoStream
    /\ UNCHANGED cvars
    /\ UNCHANGED variant

ReqLogout ==
    /\ op = "none"
    /\ variant = "standalone"
    /\ \E limited \in BOOLEAN :
        \E r \in {IF limited THEN Auth(429, EmptyDict, session)
                   ELSE logout(session)} :
            /\ op' = "logout"
            /\ req' = [limited |-> limited]
            /\ status' = r.status /\ body' = r.body /\ session' = r.session
    /\ rows' = <<>> /\ calls' = 0 /\ ret' = EmptyDict /\ raised' = FALSE
    /\ waited' = 0
    /\ NoStream
    /\ UNCHANGED cvars
    /\ UNCHANGED variant

\* The request is over: everything it held is dropped (nothing but the
\* deployment and the client's session outlives a request).
Return ==
    /\ op # "none"
    /\ op' = "none"
    /\ req' = [none |-> TRUE]
    /\ ret' = EmptyDict
    /\ raised' = FALSE
    /\ calls' = 0
    /\ NoStream /\ NoResponse
    /\ UNCHANGED <<variant, session>>

Next ==
    \/ CallValidateFile
    \/ CallReadFileContent
    \/ CallCleanJsonResponse
    \/ CallCreateEvidenceRegistry
    \/ CallCreateAnalysis
    \/ CallCreateDealReview
    \/ StreamCreate
    \/ StreamPull
    \/ ReqAnalyze
    \/ ReqAnalyzeSample
    \/ ReqDealReview
    \/ ReqAnalyzeStream
    \/ ReqAnalyzeSampleStream
    \/ FramePull
    \/ ReqGoogleAuth
    \/ ReqLogout
    \/ Return

Spec == Init /\ [][Next]_vars

-----------------------------------------------------------------------------
(* State machine: requests that log concurrently *)

\* analysis.py keeps one DatasetLogger for all requests (dataset_logger, a
\* module global); its fields are assigned in __init__ only.  What the
\* requests share through it is the project's dataset: whether it exists,
\* whether it has a schema (get_dataframe raises without one), the times
\* builder.create() succeeded, and the rows, each named by its request.
\* A thread is the call of log_analysis of one request whose two stages
\* succeeded; the dataset service itself answers every call, and logging is
\* enabled (self.enabled and self.project are set).
Requests == 1..MaxRequests

\* log_analysis begins: self.enabled holds, _ensure_dataset_exists is entered
CallLogAnalysis(t) ==
    /\ thread[t].pc = "idle"
    /\ UNCHANGED hvars
    /\ thread' = [thread EXCEPT ![t].pc = "list"]
    /\ UNCHANGED dataset

\* datasets = self.project.list_datasets(); dataset_exists = any(...)
ListDatasets(t) ==
    /\ thread[t].pc = "list"
    /\ UNCHANGED hvars
    /\ thread' = [thread EXCEPT ![t].dataset_exists = dataset.exists,
                                ![t].pc = IF dataset.exists THEN "read" ELSE "create"]
    /\ UNCHANGED dataset

\* builder.create().  On a name that another request created meanwhile the
\* call either raises (except Exception: return False, and log_analysis
\* returns False: "skipping logging") or succeeds once more.
CreateDataset(t) ==
    /\ thread[t].pc = "create"
    /\ UNCHANGED hvars
    /\ \E raises \in (IF dataset.exists THEN BOOLEAN ELSE {FALSE}) :
        IF raises THEN
            /\ thread' = [thread EXCEPT ![t].pc = "done", ![t].logged = "False"]
            /\ UNCHANGED dataset
        ELSE
            /\ dataset' = [dataset EXCEPT !.exists = TRUE, !.creates = @ + 1]
            /\ thread' = [thread EXCEPT ![t].pc = "read"]

\* existing_df = dataset.get_dataframe(limit=1): raises on a dataset that
\* has no schema yet
GetDataframe(t) ==
    /\ thread[t].pc = "read"
    /\ UNCHANGED hvars
    /\ thread' = [thread EXCEPT ![t].pc = IF dataset.schema THEN "append"
                                          ELSE "write_with_schema"]
    /\ UNCHANGED dataset

\* dataset.write_dataframe(df_new, infer_schema=False): "Appending to
\* existing dataset"; return True
WriteDataframe(t) ==
    /\ thread[t].pc = "append"
    /\ UNCHANGED hvars
    /\ dataset' = [dataset EXCEPT !.rows = Append(@, t)]
    /\ thread' = [thread EXCEPT ![t].pc = "done", ![t].logged = "True"]

\* dataset.write_with_schema(df_new), in the except clause ("Dataset doesn't
\* have data yet"): the dataset is written from the one-row frame; on a
\* dataset that got rows meanwhile the write either replaces them or adds
\* to them.  return True
WriteWithSchema(t) ==
    /\ thread[t].pc = "write_with_schema"
    /\ UNCHANGED hvars
    /\ \E replaces \in (IF dataset.rows = <<>> THEN {TRUE} ELSE BOOLEAN) :
        dataset' = [dataset EXCEPT !.schema = TRUE,
                                   !.rows = IF replaces THEN <<t>> ELSE Append(@, t)]
    /\ thread' = [thread EXCEPT ![t].pc = "done", ![t].logged = "True"]

\* The handlers are idle; the dataset is absent, or there without a schema,
\* or there with one.
InitConc ==
    /\ variant = "plugin"
    /\ op = "none"
    /\ req = [none |-> TRUE]
    /\ ret = EmptyDict
    /\ raised = FALSE
    /\ calls = 0
    /\ status = 0
    /\ body = EmptyDict
    /\ pc = "idle"
    /\ events = <<>>
    /\ evidence_result = EmptyDict
    /\ rows = <<>>
    /\ hpc = "idle"
    /\ frames = <<>>
    /\ session = {}
    /\ waited = 0
    /\ \E exists \in BOOLEAN, schema \in BOOLEAN :
        /\ schema => exists
        /\ dataset = [exists |-> exists, schema |-> schema, creates |-> 0,
                      rows |-> <<>>]
    /\ thread = [t \in Requests |-> [pc |-> "idle", dataset_exists |-> FALSE,
                                     logged |-> "none"]]

NextConc ==
    \/ \E t \in Requests : CallLogAnalysis(t)
    \/ \E t \in Requests : ListDatasets(t)
    \/ \E t \in Requests : CreateDataset(t)
    \/ \E t \in Requests : GetDataframe(t)
    \/ \E t \in Requests : WriteDataframe(t)
    \/ \E t \in Requests : WriteWithSchema(t)

SpecConc == InitConc /\ [][NextConc]_vars

-----------------------------------------------------------------------------
(* Properties: the analysis client *)

\* The transcripts create_evidence_registry is to refuse
BadLength(t) == TLen(t) > MAX_TRANSCRIPT_LEN \/ StripLen(t) < MIN_TRANSCRIPT_LEN

\* C1: create_evidence_registry, given any transcript whose raw length
\* exceeds 50,000 characters or whose trimmed length is below 50, returns a
\* result carrying an error field and issues no model call.
C1_BadLengthRefused ==
    (op = "create_evidence_registry" /\ BadLength(req.transcript))
        => (~raised /\ ret.t = "obj" /\ ret.hasError /\ calls = 0)

\* The mock client, handed a transcript of fewer than 50 characters, has
\* returned its fixed registry and no error.
C1_MockAcceptsShort ==
    /\ op = "create_evidence_registry" /\ variant = "mock"
    /\ StripLen(req.transcript) < MIN_TRANSCRIPT_LEN
    /\ ret = Registry(3) /\ ~ret.hasError

\* A stage of the stream succeeded: it returned (no exception), and what it
\* returned holds no "error"
StageOk(r) == ~r.raised /\ r.ret.t # "int" /\ ~(r.ret.t = "obj" /\ r.ret.hasError)

\* The event e is {"stage": stage, "status": "started", ...}, without data
IsStarted(e, stage) ==
    e.stage = stage /\ e.status = "started" /\ ~e.hasData /\ e.error = <<>>
\* The event e is {"stage": stage, "status": "complete", "data": data, ...}
IsComplete(e, stage, data) ==
    e.stage = stage /\ e.status = "complete" /\ e.hasData /\ e.data = data
        /\ e.error = <<>>
\* The event e is {"stage": "error", "error": message, "complete": True}
IsError(e) ==
    e.stage = "error" /\ e.status = "none" /\ ~e.hasData /\ e.error # <<>>
        /\ e.complete

\* C2: in a run of create_analysis_streamed in which both stages succeed,
\* the events are exactly evidence/started, evidence/complete with the
\* evidence data, analysis/started, analysis/complete with the analysis data
\* and marked final, and nothing before, between or after them.
C2_SuccessfulRunEvents ==
    (op = "create_analysis_streamed" /\ Len(req.results) = 2
        /\ StageOk(req.results[1]) /\ StageOk(req.results[2]))
        => /\ pc \in {"last", "closed"}
           /\ Len(events) = 4
           /\ IsStarted(events[1], "evidence")
           /\ IsComplete(events[2], "evidence", req.results[1].ret)
           /\ IsStarted(events[3], "analysis")
           /\ IsComplete(events[4], "analysis", req.results[2].ret)
           /\ \A i \in 1..4 : events[i].complete <=> i = 4

\* A successful run of the real client has ended with its four events, the
\* last carrying the analysis the model sent.
C2_Witness ==
    /\ op = "create_analysis_streamed" /\ variant = "plugin" /\ pc = "closed"
    /\ Len(req.results) = 2 /\ StageOk(req.results[1]) /\ StageOk(req.results[2])
    /\ Len(events) = 4
    /\ events[2].data = Registry(MaxEvidence)
    /\ events[4].complete /\ events[4].data.fw["meddic"].present

\* C3: when a stage of create_analysis_streamed fails, the stream emits a
\* single terminal error event and stops.  After a failing evidence stage
\* the events are exactly evidence-started, error, the analysis stage is
\* not started and its model call is not issued; after a failing analysis
\* stage there is no analysis-complete event; no event follows an error
\* event.
C3_ErrorEndsStream ==
    op = "create_analysis_streamed" =>
        /\ \A i \in DOMAIN events : events[i].stage = "error" => i = Len(events)
        /\ (Len(req.results) >= 1 /\ ~StageOk(req.results[1])) =>
                /\ Len(events) = 2
                /\ IsStarted(events[1], "evidence")
                /\ IsError(events[2])
                /\ Len(req.results) = 1
                /\ calls = req.results[1].calls
                /\ pc \in {"last", "closed"}
        /\ (Len(req.results) = 2 /\ ~StageOk(req.results[2])) =>
                /\ Len(events) = 4
                /\ IsError(events[4])
                /\ \A i \in DOMAIN events :
                        ~(events[i].stage = "analysis" /\ events[i].status = "complete")
                /\ pc \in {"last", "closed"}

\* The evidence stage of the real client returned an error, and the stream
\* has ended after evidence-started and the error event.
C3_Witness ==
    /\ op = "create_analysis_streamed" /\ variant = "plugin" /\ pc = "closed"
    /\ Len(req.results) = 1
    /\ req.results[1].ret.t = "obj" /\ req.results[1].ret.hasError
    /\ Len(events) = 2 /\ IsStarted(events[1], "evidence") /\ IsError(events[2])
    /\ events[2].error = req.results[1].ret.error

\* Where the dimension d stands in the fixed order dims
Pos(dims, d) == CHOOSE i \in DOMAIN dims : dims[i] = d

\* The keys of kv follow one another as they do in dims
InCanonicalOrder(kv, dims) ==
    \A i, j \in DOMAIN kv : i < j => Pos(dims, kv[i][1]) < Pos(dims, kv[j][1])

\* create_analysis returned a result without an error
AnalysisSucceeded ==
    op = "create_analysis" /\ ~raised /\ ret.t = "obj" /\ ~ret.hasError

\* C4: in every successful create_analysis result, the dimensions of every
\* framework it contains (sales-whys / three-whys, business-context and
\* MEDDIC) appear in the fixed canonical order of that framework, whatever
\* order the raw model response listed them in.
C4_EveryFrameworkCanonical ==
    AnalysisSucceeded =>
        \A f \in AllFrameworks :
            (ret.fw[f].present /\ ret.fw[f].isObj)
                => InCanonicalOrder(ret.fw[f].kv, Canonical(f))

\* The response listed champion before metrics under "meddic", and the
\* successful result of the real client lists them in that order.
C4_MeddicAsSent ==
    /\ AnalysisSucceeded /\ variant = "plugin" /\ calls = 1
    /\ Keys(req.resp.value.fw["meddic"].kv) = <<"champion", "metrics">>
    /\ Keys(ret.fw["meddic"].kv) = <<"champion", "metrics">>

\* The model was called and its answer parsed as a JSON object
ParsedObject ==
    /\ op = "create_analysis" /\ calls = 1
    /\ ~req.resp.raises /\ req.resp.valid /\ req.resp.value.t = "obj"

ClientOp == op \in {"create_evidence_registry", "create_analysis", "create_deal_review"}

\* C6: each of create_evidence_registry, create_analysis and
\* create_deal_review issues at most one model call per invocation and never
\* raises: a failed model call, or a response that is not valid JSON after
\* cleaning, is returned to the caller as a result with an error field.
C6_OneCallNoRaise ==
    ClientOp =>
        /\ calls <= 1
        /\ ~raised
        /\ (calls = 1 /\ (req.resp.raises \/ ~req.resp.valid))
                => (ret.t = "obj" /\ ret.hasError /\ ret.error # <<>>)

\* The one model call of create_deal_review failed, and the caller was
\* handed a result with an error field.
C6_Witness ==
    /\ op = "create_deal_review" /\ variant = "plugin"
    /\ calls = 1 /\ req.resp.raises
    /\ ~raised /\ ret.hasError

\* create_deal_review was handed the mock's registry and the mock's analysis
MockInputs ==
    /\ op = "create_deal_review"
    /\ req.evidence_registry = Registry(3) /\ req.analysis_data = MockAnalysis

\* The review has gaps, one of the two stages, and the stage of the rubric
RubricReview(review, analysis_data) ==
    /\ review.present
    /\ review.critical_gaps > 0
    /\ review.stage_readiness \in {"More Discovery Needed", "Ready for Demo"}
    /\ MissingMeddic(analysis_data) > 2
            => review.stage_readiness = "More Discovery Needed"

\* C16 as stated: given the fixed mock evidence registry and mock analysis,
\* create_deal_review returns a deal_review whose critical_gaps list is
\* non-empty and whose stage_readiness is one of "More Discovery Needed" /
\* "Ready for Demo" and equals the value the MEDDIC-completeness rubric
\* dictates for that analysis (more than two missing MEDDIC elements gives
\* "More Discovery Needed").
C16_RubricReviewReturned ==
    MockInputs => (~raised /\ ~ret.hasError /\ RubricReview(ret.review, req.analysis_data))

\* C16 amended: given the fixed mock evidence registry and mock analysis,
\* the mock client's create_deal_review returns, without a model call, a
\* deal_review with three critical gaps and the stage "More Discovery
\* Needed", the value of the rubric for that analysis, three of whose
\* MEDDIC elements name no evidence.  The real clients return what the
\* model answered, as it parsed: the rubric is an instruction of the
\* prompt, and the answer is not checked against it.
C16_MockReviewFollowsRubric ==
    MockInputs =>
        /\ variant = "mock" =>
                /\ ~raised /\ ~ret.hasError /\ calls = 0
                /\ RubricReview(ret.review, req.analysis_data)
                /\ ret.review.critical_gaps = 3
                /\ ret.review.stage_readiness = "More Discovery Needed"
        /\ (variant # "mock" /\ ~req.resp.raises /\ req.resp.valid) =>
                /\ calls = 1
                /\ ret = req.resp.value

\* The mock client was handed its own registry and analysis, in which three
\* MEDDIC elements are missing, and returned its review.
C16_Witness ==
    /\ MockInputs /\ variant = "mock"
    /\ MissingMeddic(req.analysis_data) = 3
    /\ ret.review.stage_readiness = "More Discovery Needed"
    /\ ret.review.critical_gaps = 3

-----------------------------------------------------------------------------
(* Properties: the request handlers and the file processor *)

\* The request got past the rate limiter and the session check
Admitted == ~req.limited /\ req.authed

\* The upload is plain text that decodes, so that its text is the
\* transcript content
TextUpload(file) == file.ctype = "text/plain" /\ file.decodable

\* An input-validation failure of the analyze endpoint: no file, a file
\* validate_file refuses (type, size, emptiness), or transcript content that
\* is empty, too short or too long
InvalidAnalyzeInput ==
    /\ op = "analyze" /\ Admitted
    /\ \/ ~req.hasFile
       \/ ~validate_file(req.file.name, req.file.size).is_valid
       \/ TextUpload(req.file) /\ BadLength(req.file.text)

\* An input-validation failure of the deal-review endpoint: no body, or a
\* body lacking one of its two fields
InvalidReviewInput ==
    /\ op = "deal_review" /\ Admitted
    /\ \/ req.data.kind = "none"
       \/ req.data.kind = "dict" /\ (~req.data.has_ev \/ ~req.data.has_an)

\* C7: every input-validation failure on the analyze and deal-review
\* endpoints (missing file, disallowed file type, oversize or empty file,
\* empty, too-short or too-long transcript content, missing request fields)
\* is answered with HTTP 400 and a specific message, never with 500.
C7_InvalidInputIs400 ==
    (InvalidAnalyzeInput \/ InvalidReviewInput)
        => (status = 400 /\ body.hasError /\ body.error # <<>>)

\* A valid a.txt whose text is 10 to 49 characters long was uploaded to the
\* real handlers, and the answer is 500 with the client's "too short".
C7_ShortTranscriptIs500 ==
    /\ op = "analyze" /\ variant \in {"plugin", "standalone"} /\ Admitted
    /\ req.hasFile /\ validate_file(req.file.name, req.file.size).is_valid
    /\ TextUpload(req.file)
    /\ StripLen(req.file.text) >= MIN_CONTENT_LEN
    /\ StripLen(req.file.text) < MIN_TRANSCRIPT_LEN
    /\ status = 500
    /\ body.error = <<"Analysis failed: ", "Transcript too short">>
    /\ calls = 0

JsonEndpoints == {"analyze", "analyze_sample", "deal_review"}
StreamEndpoints == {"analyze_stream", "analyze_sample_stream"}

\* The body is {"error": message} and nothing else
IsErrorBody(b) == b.error # <<>> /\ b = ErrorBody(b.error)

\* The keys of a frame's JSON object
FrameKeys(f) ==
    {"stage"}
    \cup (IF f.status # "none" THEN {"status"} ELSE {})
    \cup (IF f.hasData THEN {"data"} ELSE {})
    \cup (IF f.hasComplete THEN {"complete"} ELSE {})
    \cup (IF f.stage = "error" THEN {"error"} ELSE {})

\* C8 as stated: every error response of the analysis endpoints (analyze,
\* analyze-sample, deal-review and the two streaming variants) has a body of
\* the form {"error": message}, and no exception raised while handling a
\* request reaches the client as an unhandled fault.
C8_EveryErrorIsErrorBody ==
    /\ op \in JsonEndpoints => (~raised /\ (status # 200 => IsErrorBody(body)))
    /\ op \in StreamEndpoints =>
            /\ ~raised
            /\ \A i \in DOMAIN frames :
                    frames[i].stage = "error" =>
                        (FrameKeys(frames[i]) = {"error"} /\ frames[i].error # <<>>)

\* C8 amended: every error response of analyze, analyze-sample and
\* deal-review has a body of the form {"error": message}; the two streaming
\* variants answer 200 and report an error as an event of the stream,
\* {"stage": "error", "error": message} with or without "complete", which
\* is the last frame; no exception raised while handling a request reaches
\* the client as an unhandled fault.
C8_ErrorBodyOrErrorFrame ==
    /\ op \in JsonEndpoints => (~raised /\ (status # 200 => IsErrorBody(body)))
    /\ op \in StreamEndpoints =>
            /\ ~raised
            /\ status = 200
            /\ \A i \in DOMAIN frames :
                    frames[i].stage = "error" =>
                        /\ FrameKeys(frames[i]) \in {{"stage", "error"},
                                                      {"stage", "error", "complete"}}
                        /\ frames[i].error # <<>>
                        /\ i = Len(frames)

\* A streaming request ended with the error frame that generate() builds
\* when an exception reaches its except clause: the analysis was a JSON
\* list, which the logging after the last event cannot read.
C8_Witness ==
    /\ op = "analyze_stream" /\ hpc = "closed" /\ ~raised
    /\ Len(frames) = 5
    /\ frames[4].stage = "analysis" /\ frames[4].status = "complete"
    /\ frames[5] = HandlerError(<<StrE>>)

\* The model call of the handler's last stage failed: it raised, or its
\* text was no valid JSON after cleaning
ModelFailed ==
    /\ op \in JsonEndpoints
    /\ req.answers # <<>>
    /\ \/ req.answers[Len(req.answers)].raises
       \/ ~req.answers[Len(req.answers)].valid

\* C9: when the model call fails or the model output is not valid JSON
\* after cleaning, the handler answers HTTP 500 with a generic message that
\* carries no detail of the underlying exception, and the model call is not
\* retried.
C9_GenericFailureMessage ==
    ModelFailed =>
        /\ status = 500
        /\ IsErrorBody(body)
        /\ StrE \notin Range(body.error)
        /\ calls = Len(req.answers)
        /\ calls <= (IF op = "deal_review" THEN 1 ELSE 2)

\* The evidence call of the plugin's analyze handler raised, and the body of
\* the 500 holds the text of the exception.
C9_ExceptionTextSent ==
    /\ op = "analyze" /\ variant = "plugin"
    /\ Len(req.answers) = 1 /\ req.answers[1].raises
    /\ status = 500
    /\ body.error = <<"Analysis failed: ", "Analysis failed: ", StrE>>

\* The file-type message of validate_file for the extension ext
FileTypeMessage(ext) ==
    <<"File type .", ext, " not allowed. Only .txt and .docx files are supported">>

\* C10: validate_file rejects a file whose extension (the part after the
\* final dot, compared case-insensitively) is not txt or docx with a
\* file-type message; of the files with an allowed extension it rejects one
\* of size 0 as empty and one larger than 5 MB as too large; it accepts
\* exactly the named files whose extension is allowed and whose size is from
\* 1 byte to 5 MB inclusive.  (The checks run in this order: a file of a
\* disallowed type is refused for its type whatever its size.)
C10_ValidateFile ==
    op = "validate_file" =>
        /\ (HasDot(req.name) /\ ~NameIsEmpty(req.name)
                /\ Lower(req.name[Len(req.name)]) \notin {"txt", "docx"})
              => (ret.hasError
                    /\ ret.error = FileTypeMessage(Lower(req.name[Len(req.name)])))
        /\ (HasDot(req.name) /\ Lower(req.name[Len(req.name)]) \in {"txt", "docx"})
              => /\ req.size = 0 => (ret.hasError /\ ret.error = <<"File is empty">>)
                 /\ req.size > 5 * 1024 * 1024
                        => (ret.hasError /\ ret.error[1] = "File too large. Maximum size is ")
        /\ ~ret.hasError <=>
                /\ ~NameIsEmpty(req.name) /\ HasDot(req.name)
                /\ Lower(req.name[Len(req.name)]) \in {"txt", "docx"}
                /\ 1 <= req.size /\ req.size <= 5 * 1024 * 1024

\* a.pdf.TXT of exactly 5 MB was accepted
C10_Witness ==
    /\ op = "validate_file"
    /\ req.name = <<"a", "pdf", "TXT">> /\ req.size = 5 * 1024 * 1024
    /\ ~ret.hasError /\ ret.error = <<"File is valid">>

\* The content types read_file_content takes for a document
DocumentTypes == {DOCX_MIME, "application/octet-stream"}

\* The cases in which read_file_content is to return None: a content type
\* outside the allow-list, bytes that do not decode, a document that does
\* not parse or no parser, an extracted text of fewer than 10 characters
NoUsableContent(file, docx_available) ==
    \/ file.ctype \notin ALLOWED_MIME_TYPES
    \/ file.ctype = "text/plain" /\ ~file.decodable
    \/ file.ctype \in DocumentTypes /\ (~docx_available \/ ~file.parses)
    \/ StripLen(file.text) < 10

\* C11: read_file_content returns no content (None) and never raises when
\* the content type is outside the MIME allow-list, when the bytes cannot be
\* decoded as UTF-8, when document parsing fails or is unavailable, or when
\* the extracted text has fewer than 10 characters after trimming; in every
\* other case it returns the text extracted from the file.
C11_NoneOrExtractedText ==
    op = "read_file_content" =>
        /\ ~raised
        /\ IF NoUsableContent(req.file, req.docx_available) THEN ret.none
           ELSE ~ret.none /\ ret.text = req.file.text

\* app.py's read_file_content, handed a document that does not parse, has
\* returned its fixed placeholder text: not None, and not the file's text.
C11_PlaceholderReturned ==
    /\ op = "read_file_content" /\ variant = "standalone"
    /\ req.file.ctype \in DocumentTypes /\ req.docx_available
    /\ ~req.file.parses
    /\ ~ret.none /\ StripLen(ret.text) = PLACEHOLDER_LEN
    /\ ret.text # req.file.text

\* The body of a deal-review request holds a non-empty evidence_registry
\* and a non-empty analysis_data
HasBothFields(data) == data.kind = "dict" /\ data.has_ev /\ data.has_an

\* C15: the deal-review endpoint answers 400 and issues no model call when
\* the JSON body is absent or lacks a non-empty evidence_registry or a
\* non-empty analysis_data; otherwise it issues exactly one model call and
\* answers either 200 with the deal review or 500 with an error.
C15_DealReviewEndpoint ==
    (op = "deal_review" /\ Admitted) =>
        IF ~HasBothFields(req.data) THEN status = 400 /\ calls = 0
        ELSE /\ calls = 1
             /\ \/ status = 200 /\ body = req.answers[1].value
                \/ status = 500 /\ IsErrorBody(body)

\* The body was a JSON array: the handler answered 500 with its message for
\* an unexpected error, and issued no model call.
C15_ArrayBodyIs500 ==
    /\ op = "deal_review" /\ Admitted /\ req.data.kind = "list"
    /\ status = 500 /\ calls = 0
    /\ body = ErrorBody(<<"Deal review failed due to an unexpected error. Please try again.">>)

\* The three endpoints of app.py that ask for a session
AnalysisRequests == {"analyze", "analyze_sample", "deal_review"}

\* A request made while the session holds no user, not rate-limited, is
\* answered 401; it issues no model call in either case
UnauthenticatedIs401 ==
    (variant = "standalone" /\ op \in AnalysisRequests /\ "user" \notin session)
        => /\ calls = 0
           /\ status = IF req.limited THEN 429 ELSE 401
           /\ ~req.limited => body = ErrorBody(<<"Authentication required">>)

\* A served logout leaves a session without a user, and only a successful
\* google_auth puts a user into a session
UserOnlyByGoogleAuth ==
    /\ (op' = "logout" /\ status' = 200) => "user" \notin session'
    /\ ("user" \notin session /\ "user" \in session')
            => (op' = "google_auth" /\ status' = 200)

\* C17: in the standalone variant, in any sequence of google_auth, logout
\* and analysis requests, a request to analyze, analyze-sample or
\* deal-review made while the session holds no authenticated user is
\* answered 401 (unless it is rate-limited first) and issues no model call;
\* after a logout this holds until the next successful google_auth.
C17_NoUserNoAnalysis == []UnauthenticatedIs401 /\ [][UserOnlyByGoogleAuth]_vars

\* An analyze request that was not rate-limited, from a session without a
\* user, was answered 401 without a model call.
C17_Witness ==
    /\ variant = "standalone" /\ op = "analyze" /\ "user" \notin session
    /\ ~req.limited /\ req.hasFile
    /\ status = 401 /\ calls = 0

\* C20: result logging to the dataset is fire-and-forget: the handler's
\* response to the client does not wait for log_analysis to finish, so the
\* time the logging call takes never delays the response.
C20_ResponseDoesNotWaitForLogging ==
    op \in {"analyze", "analyze_sample"} => waited = 0

\* The plugin answered POST /analyze with 200 after its call of log_analysis
\* had written the row: the response waited for as long as the call took.
C20_ResponseWaitedForLogging ==
    /\ op = "analyze" /\ variant = "plugin" /\ status = 200
    /\ req.log_ok /\ Len(rows) = 1
    /\ req.log_time > 0 /\ waited = req.log_time

\* What stage 1 handed the handler of the request at hand
Stage1Evidence ==
    create_evidence_registry(variant, GoodText,
                             IF req.answers = <<>> THEN Garbage
                             ELSE req.answers[1]).ret

Stage2Analysis ==
    create_analysis(variant, Stage1Evidence,
                    IF Len(req.answers) < 2 THEN Garbage ELSE req.answers[2]).ret

-----------------------------------------------------------------------------
(* Properties: requests that log concurrently *)

\* The rows of the dataset that request t logged
RowsOf(t) == {i \in DOMAIN dataset.rows : dataset.rows[i] = t}

\* C21: no request shares mutable state with another: under any
\* interleaving of concurrent requests, the response and the logged row of
\* one request are the same as if it had run alone (its call of
\* log_analysis returns True and its row is in the dataset, once), and the
\* results dataset is created at most once.
C21_RequestsAreIsolated ==
    /\ dataset.creates <= 1
    /\ \A t \in Requests :
            thread[t].pc = "done" =>
                thread[t].logged = "True" /\ Cardinality(RowsOf(t)) = 1

\* Two requests both listed the datasets before either created one: the
\* second create raised, that request's logging was skipped and only the
\* other's row is in the dataset.
C21_LoggingSkippedByRace ==
    \E t, u \in Requests :
        /\ t # u
        /\ thread[t].pc = "done" /\ thread[u].pc = "done"
        /\ ~thread[t].dataset_exists /\ ~thread[u].dataset_exists
        /\ thread[t].logged = "False" /\ thread[u].logged = "True"
        /\ dataset.creates = 1 /\ dataset.rows = <<u>>

-----------------------------------------------------------------------------
(* Properties: the streaming sequence *)

\* C18: every event emitted on a streaming response is a progress event
\* with stage in {evidence, analysis, error} and a boolean complete field,
\* and complete is true on the last event of the stream and on no earlier
\* event.
C18_CompleteOnLastEventOnly ==
    LET Stages == {"evidence", "analysis", "error"} IN
    /\ op = "create_analysis_streamed" =>
            \A i \in DOMAIN events :
                /\ events[i].stage \in Stages
                /\ events[i].complete \in BOOLEAN
                /\ events[i].complete => i = Len(events)
                /\ (pc = "closed" /\ i = Len(events)) => events[i].complete
    /\ op \in StreamEndpoints =>
            \A i \in DOMAIN frames :
                /\ frames[i].stage \in Stages
                /\ frames[i].hasComplete /\ frames[i].complete \in BOOLEAN
                /\ frames[i].complete => i = Len(frames)
                /\ (hpc = "closed" /\ i = Len(frames)) => frames[i].complete

\* A streaming request without a file has ended after one frame,
\* {"stage": "error", "error": "No file provided"}, which has no "complete".
C18_FrameWithoutComplete ==
    /\ op = "analyze_stream" /\ hpc = "closed" /\ ~req.hasFile
    /\ Len(frames) = 1
    /\ frames[1].stage = "error" /\ frames[1].error = <<"No file provided">>
    /\ FrameKeys(frames[1]) = {"stage", "error"}

\* C29: the transcript length bounds are inclusive and "too long" takes
\* precedence: a transcript of exactly 50,000 raw characters and a transcript
\* of exactly 50 characters after trimming are accepted (the model is
\* called, the stream starts the evidence stage), and a transcript that is
\* both over 50,000 raw characters and under 50 characters after trimming
\* is reported as "Transcript too long".
C29_InclusiveBoundsLongFirst ==
    /\ (op = "create_evidence_registry" /\ variant # "mock") =>
            /\ (TLen(req.transcript) <= MAX_TRANSCRIPT_LEN
                    /\ StripLen(req.transcript) >= MIN_TRANSCRIPT_LEN) =>
                    /\ calls = 1
                    /\ ~(ret.t = "obj" /\ ret.hasError
                            /\ ret.error \in {<<"Transcript too long">>,
                                               <<"Transcript too short">>})
            /\ TLen(req.transcript) > MAX_TRANSCRIPT_LEN =>
                    /\ calls = 0 /\ ret.t = "obj" /\ ret.hasError
                    /\ ret.error = <<"Transcript too long">>
    /\ (op = "create_analysis_streamed" /\ pc # "created") =>
            /\ (TLen(req.transcript) <= MAX_TRANSCRIPT_LEN
                    /\ StripLen(req.transcript) >= MIN_TRANSCRIPT_LEN) =>
                    events[1].stage = "evidence" /\ events[1].status = "started"
            /\ TLen(req.transcript) > MAX_TRANSCRIPT_LEN =>
                    /\ events[1].stage = "error"
                    /\ events[1].error = <<"Transcript too long">>

\* A transcript of 49 characters between 50,000 of whitespace was reported
\* as too long.
C29_Witness ==
    /\ op = "create_evidence_registry" /\ variant = "plugin"
    /\ TLen(req.transcript) > MAX_TRANSCRIPT_LEN
    /\ StripLen(req.transcript) = MIN_TRANSCRIPT_LEN - 1
    /\ ret.hasError /\ ret.error = <<"Transcript too long">>

\* C28: when the transcript fails the length check, create_analysis_streamed
\* emits exactly one event, an error event marked complete, with no
\* evidence-started event before it and no model call.
C28_OneErrorEventOnBadLength ==
    (op = "create_analysis_streamed" /\ BadLength(req.transcript)) =>
        /\ calls = 0 /\ req.results = <<>>
        /\ pc = "created" => events = <<>>
        /\ pc # "created" =>
                /\ pc \in {"last", "closed"}
                /\ Len(events) = 1
                /\ events[1].stage = "error" /\ events[1].complete
                /\ events[1].error =
                        (IF TLen(req.transcript) > MAX_TRANSCRIPT_LEN
                         THEN <<"Transcript too long">>
                         ELSE <<"Transcript too short">>)

\* The generator of the plugin ended on a transcript one character short:
\* one event, no call.
C28_Witness ==
    /\ op = "create_analysis_streamed" /\ variant = "plugin" /\ pc = "closed"
    /\ StripLen(req.transcript) = MIN_TRANSCRIPT_LEN - 1
    /\ Len(events) = 1 /\ events[1].stage = "error" /\ calls = 0

\* What a pull of a streaming sequence may do: a stage result is obtained
\* (and its model call issued) only by the pull that follows the delivery of
\* that stage's started event, and a row is logged only by the pull that
\* follows the delivery of analysis-complete.
PullsInOrder ==
    (op \in {"create_analysis_streamed"} \cup StreamEndpoints /\ op' = op) =>
        /\ (calls' # calls \/ Len(req'.results) > Len(req.results)) =>
                /\ events # <<>>
                /\ events[Len(events)].status = "started"
                /\ events[Len(events)].stage =
                        (IF Len(req.results) = 0 THEN "evidence" ELSE "analysis")
                /\ Len(req'.results) = Len(req.results) + 1
                /\ op \in StreamEndpoints =>
                        /\ frames # <<>>
                        /\ frames[Len(frames)].stage = events[Len(events)].stage
                        /\ frames[Len(frames)].status = "started"
        /\ rows' # rows =>
                /\ frames # <<>>
                /\ frames[Len(frames)].stage = "analysis"
                /\ frames[Len(frames)].status = "complete"

\* Where the sequence rests after evidence-complete (or analysis-started)
\* was delivered: the evidence stage's one result, no more than its one
\* model call, and no row.
RestsAfterEvidence ==
    (op \in {"create_analysis_streamed"} \cup StreamEndpoints
        /\ pc \in {"ev_complete", "an_started"}) =>
            /\ Len(req.results) = 1
            /\ calls = req.results[1].calls /\ calls <= 1
            /\ rows = <<>>

\* C19: the streaming sequence advances only when pulled: the model call of
\* a stage is not issued before the consumer has pulled that stage's started
\* event, so a consumer that stops pulling after evidence-complete causes no
\* analysis-stage model call and no dataset logging.
C19_AdvancesOnlyWhenPulled == []RestsAfterEvidence /\ [][PullsInOrder]_vars

\* The plugin's streaming endpoint rests at evidence-complete: two frames
\* delivered, the evidence call issued, nothing logged.
C19_Witness ==
    /\ op = "analyze_stream" /\ variant = "plugin"
    /\ hpc = "looping" /\ pc = "ev_complete"
    /\ Len(frames) = 2 /\ frames[2].stage = "evidence"
    /\ frames[2].status = "complete"
    /\ calls = 1 /\ rows = <<>>

\* The stage results of a request whose row was logged: both stages
\* answered, neither raised, neither answer carries "error"
BothStagesSucceeded ==
    IF op \in StreamEndpoints THEN
        /\ Len(req.results) = 2
        /\ \A i \in 1..2 : ~req.results[i].raised /\ ~req.results[i].ret.hasError
    ELSE
        /\ ~body.hasError
        /\ variant = "plugin" => Len(req.answers) = 2

\* C25: a dataset row is logged at most once per request and only after
\* both stages have succeeded: no row is logged on any path that ends in an
\* error response or an error event, in the non-streaming and the streaming
\* handlers alike.
C25_RowOnlyAfterSuccess ==
    /\ Len(rows) <= 1
    /\ rows # <<>> =>
            /\ BothStagesSucceeded
            /\ op \in {"analyze", "analyze_sample"} \cup StreamEndpoints
            /\ op \in {"analyze", "analyze_sample"} => status = 200
            /\ op \in StreamEndpoints =>
                    /\ \A i \in DOMAIN frames : frames[i].stage # "error"
                    /\ \E i \in DOMAIN frames :
                            frames[i].stage = "analysis" /\ frames[i].complete

\* A streaming request of the plugin logged its row, after the frame of
\* analysis-complete
C25_Witness ==
    /\ variant = "plugin" /\ Len(rows) = 1
    /\ op = "analyze_stream" /\ hpc = "closed" /\ Len(frames) = 4
    /\ frames[4].stage = "analysis" /\ frames[4].complete

\* The two stage results of the analyze or analyze-sample request at hand,
\* from the text the handler read and the model answers it consumed
StageResults ==
    LET content == IF op = "analyze"
                   THEN read_file_content(variant, req.file, req.docx_available)
                   ELSE req.sample
        a(i) == IF i <= Len(req.answers) THEN req.answers[i] ELSE Garbage
        s1 == create_evidence_registry(variant, content.text, a(1))
    IN  <<s1, create_analysis(variant, s1.ret, a(2))>>

\* The request reached the stages: it was not refused with 400, 401 or 429
ReachedStages ==
    op \in {"analyze", "analyze_sample"} /\ status \notin {400, 401, 429}

\* The 200 body is the merge of the two results, the analysis first
MergedBody ==
    LET e == StageResults[1].ret
        a == StageResults[2].ret
    IN  /\ ~body.hasError
        /\ body.hasReg = (e.hasReg \/ a.hasReg)
        /\ body.n = (IF a.hasReg THEN a.n ELSE e.n)
        /\ \A f \in AllFrameworks :
                body.fw[f] = (IF a.fw[f].present THEN a.fw[f] ELSE e.fw[f])

C26_EvidenceCountLogged ==
    rows # <<>> =>
        rows[1].num_evidence_items =
            (IF op \in StreamEndpoints
             THEN Stored(frames, "evidence").data.n ELSE body.n)

\* The client got a registry of MaxEvidence entries, and the row says 0.
C26_ZeroLoggedForNonEmptyRegistry ==
    /\ op = "analyze" /\ variant = "plugin" /\ status = 200
    /\ body.hasReg /\ body.n = MaxEvidence /\ MaxEvidence > 0
    /\ Len(rows) = 1 /\ rows[1].num_evidence_items = 0

\* The answer the non-streaming handler gives to the request and the model
\* answers of the streaming request at hand
NonStreaming ==
    LET a(i) == IF i <= Len(req.answers) THEN req.answers[i] ELSE Garbage
    IN  IF op = "analyze_stream"
        THEN analyze_transcript(variant, req.hasFile, req.file, req.docx_available,
                                a(1), a(2), FALSE)
        ELSE analyze_sample(variant, req.sample, a(1), a(2), FALSE)

\* The data of the stage's complete frame
FrameData(stage) ==
    LET i == CHOOSE k \in DOMAIN frames :
                frames[k].stage = stage /\ frames[k].status = "complete"
    IN  frames[i].data

\* C24: for the same transcript and the same model responses, the streaming
\* and non-streaming paths agree: the stream ends with analysis-complete
\* exactly when the non-streaming handler would answer 200, and the data of
\* its evidence-complete and analysis-complete events are the same evidence
\* and analysis objects that the non-streaming response merges.
C24_StreamAgreesWithNonStreaming ==
    (op \in StreamEndpoints /\ hpc = "closed") =>
        LET ends == /\ frames # <<>>
                    /\ frames[Len(frames)].stage = "analysis"
                    /\ frames[Len(frames)].status = "complete"
        IN  /\ ends <=> NonStreaming.status = 200
            /\ ends =>
                    NonStreaming.body =
                        Merge(FrameData("evidence"), FrameData("analysis"),
                              NonStreaming.body.is_sample)

\* The mock deployment, a transcript of 10 to 49 characters: the stream was
\* one error event, "Transcript too short", and the non-streaming handler
\* answers 200.
C24_MockStreamRefusesShortTranscript ==
    /\ op = "analyze_stream" /\ variant = "mock" /\ hpc = "closed"
    /\ Len(frames) = 1
    /\ frames[1].stage = "error" /\ frames[1].error = <<"Transcript too short">>
    /\ NonStreaming.status = 200

-----------------------------------------------------------------------------
(* Properties: clean_json_response *)

\* C12: clean_json_response, applied to text that contains a fenced json
\* block, returns exactly the content of that fenced block (after
\* trailing-comma removal) and nothing from outside the fence, also when
\* the text contains more than one fenced block or braces outside the
\* fence.
C12_ExactlyTheFencedContent ==
    (op = "clean_json_response" /\ req.kind = "fenced")
        => ret = req.content.fixed

\* The text held two fenced blocks, and what was returned runs from the
\* first block's object over the closing fence, the prose between and the
\* second opening fence to the second block's object.
C12_SpansBothBlocks ==
    /\ op = "clean_json_response" /\ req.kind = "fenced" /\ req.blocks = 2
    /\ req.content.raw = <<"{", "\"", "a", "\"", ":", "1", "}">>
    /\ ret = req.content.raw \o <<FENCE, " ", "a", " ", FENCE, "json", "{", "}">>

\* C13: clean_json_response is a no-op on already-clean JSON: for every
\* text that is a valid JSON object with no surrounding text, the output
\* equals the input.
C13_NoOpOnCleanJson ==
    (op = "clean_json_response" /\ req.kind = "json") => ret = req.text

\* The object {"a":",}"} came back as {"a":"}"}: the comma inside the
\* string value is gone.
C13_StringValueChanged ==
    /\ op = "clean_json_response" /\ req.kind = "json"
    /\ req.text = <<"{", "\"", "a", "\"", ":", "\"", ",", "}", "\"", "}">>
    /\ ret = <<"{", "\"", "a", "\"", ":", "\"", "}", "\"", "}">>

\* The text holds a comma that only whitespace and a closing } or ] follow
HasTrailingComma(t) == \E i \in DOMAIN t : CommaBeforeClose(t, i)

\* The text holds such a comma that another comma and whitespace precede
HasCommaRun(t) ==
    \E i, j \in DOMAIN t :
        /\ i < j /\ t[i] = "," /\ CommaBeforeClose(t, j)
        /\ \A k \in (i + 1)..(j - 1) : t[k] = " "

Commas(t) == {i \in DOMAIN t : t[i] = ","}
\* The text without its commas and blanks
Solid(t) == Pick(t, {i \in DOMAIN t : t[i] \notin {",", " "}})

FirstObject(t) ==
    LET Opens == {i \in DOMAIN t : t[i] = "{"}
        Depth(o, e) == Cardinality({k \in o..e : t[k] = "{"})
                            - Cardinality({k \in o..e : t[k] = "}"})
        Closes(o) == {e \in o..Len(t) : t[e] = "}" /\ Depth(o, e) = 0}
    IN  IF Opens = {} THEN <<>>
        ELSE IF Closes(Min(Opens)) = {} THEN <<>>
        ELSE SubSeq(t, Min(Opens), Min(Closes(Min(Opens))))

\* t has no fence, and no string of t holds anything but a letter
NoFenceNoBracketInString(t) ==
    \A i \in DOMAIN t :
        /\ t[i] # FENCE
        /\ t[i] = "\"" => (At(t, i + 1) = "a" \/ At(t, i - 1) = "a")

\* C22: when the text has no fenced block, clean_json_response extracts the
\* first top-level brace-delimited object: the text from the first '{' to
\* the '}' that closes it, and nothing that follows that object.
C22_FirstTopLevelObject ==
    (op = "clean_json_response" /\ NoFenceNoBracketInString(req.text)
        /\ FirstObject(req.text) # <<>>)
        => ret = Strip(SubTrailingCommas(FirstObject(req.text)))

\* The text was two objects, {}{}: what was returned is both of them.
C22_BothObjectsReturned ==
    /\ op = "clean_json_response"
    /\ req.text = <<"{", "}", "{", "}">>
    /\ FirstObject(req.text) = <<"{", "}">>
    /\ ret = <<"{", "}", "{", "}">>

\* C30: clean_json_response is idempotent: for every input text, applying it
\* to its own output returns that output unchanged.
C30_Idempotent ==
    op = "clean_json_response" => clean_json_response(ret) = ret

\* The text was {,,}: the first application returned {,} and a second one
\* returns {}.
C30_SecondPassRemovesMore ==
    /\ op = "clean_json_response"
    /\ req.text = <<"{", ",", ",", "}">>
    /\ ret = <<"{", ",", "}">>
    /\ clean_json_response(ret) = <<"{", "}">>

=============================================================================
